---- MODULE Spec2Model ----
(***************************************************************************)
(* A model of file_retriever: the metadata parsers of file.py, the FTP and *)
(* SFTP sessions of _clients.py, the ConnectionClient of connect.py and    *)
(* get_recent_files of utils.py.  Strings that the code slices or strips   *)
(* are sequences of one-character strings.  A Python call is an operator   *)
(* that returns a record: its exception ("none" when it returns), its      *)
(* value and the state it leaves behind.  Where a call uses an intermediate *)
(* result several times, the rest of the call is an operator of its own    *)
(* that takes the result as a parameter.                                   *)
(***************************************************************************)
EXTENDS Integers, Sequences, FiniteSets, TLC

VARIABLES
    variant,    \* session kind: "ftp" (port 21) or "sftp" (port 22)
    mlsdOk,     \* the FTP server accepts MLSD
    remoteFs,   \* the destination server: directory -> file name -> entry
    localFs,    \* the local disk: directory -> file name -> entry
    cwd,        \* the destination session's working directory (pwd() / getcwd())
    lastOp,     \* the last Client call: its arguments and its outcome
    connection, \* ConnectionClient.client.connection: "open" or "closed"
    srcFiles,   \* the vendor's source directory: file name -> stat entry
    osFiles,    \* the process's working directory, as os.stat sees it
    loginInSrc, \* the SFTP login directory is the source directory
    dstFiles,   \* ConnectionClient.dst_dir: file name -> "absent", "whole", "empty"
    lastCall,   \* the last ConnectionClient call: its arguments and its outcome
    pc,         \* get_recent_files: the statement it is at
    vi,         \* get_recent_files: index of the vendor of the current iteration
    recentFiles,\* what each vendor's list_file_info returns
    pending,    \* the files of file_list not yet fetched and put
    opened,     \* the sessions connect() has returned
    closed,     \* the sessions that have been closed
    attempted,  \* the vendors connect() has been called for
    delivered,  \* the (vendor, file) pairs put_file has returned for
    failure,    \* the vendor and the step whose exception left get_recent_files
    calls,      \* the calls get_recent_files has made on its sessions, in order
    sess,       \* the _clients.py session under test: "none", "open" or "failed"
    lastSess,   \* the last call on that session: its arguments and its outcome
    arg,        \* the strings handed to a parser of FileInfo
    parsed      \* what the parser made of them

putVars == <<variant, mlsdOk, remoteFs, localFs, cwd, lastOp>>
connVars == <<connection, srcFiles, osFiles, loginInSrc, dstFiles, lastCall>>
syncVars ==
    <<pc, vi, recentFiles, pending, opened, closed, attempted, delivered, failure, calls>>

sessVars == <<sess, lastSess>>
parseVars == <<arg, parsed>>

vars == <<putVars, connVars, syncVars, sessVars, parseVars>>

-----------------------------------------------------------------------------
(* Bounds of the model *)

MaxSize == 1
MaxMtime == 2

Sizes == 0..MaxSize
Mtimes == 1..MaxMtime
FileNames == {"foo.mrc", "bar.mrc"}

\* paths, as Python strings: sequences of characters
RootDir == <<"/">>
DstDir == <<"/", "d">>
GoneDir == <<"/", "g">>
Dirs == {DstDir, GoneDir}

\* Python's None, where a path may be None
None == <<"None">>

NoFile == [size |-> -1, mtime |-> 0]
IsFile(e) == e.size >= 0
EmptyDir == [n \in FileNames |-> NoFile]

\* the mode a server reports for a regular file, rw-r--r--
ServerMode == 33188
\* the same file in an MLSD listing (unix.mode) and in a LIST line
UnixMode == <<"0", "6", "4", "4">>
ListPerms == <<"-", "r", "w", "-", "r", "-", "-", "r", "-", "-">>
FileModes == {33188, 33279}

-----------------------------------------------------------------------------
(* file.py *)

NoInfo == [file_name |-> "", file_size |-> -1, file_mtime |-> 0, file_mode |-> -1]

Ok(v) == [exc |-> "none", val |-> v]
Raise(e) == [exc |-> e, val |-> -1]

Digits == {"0", "1", "2", "3", "4", "5", "6", "7", "8", "9"}
DigitVal(c) ==
    CASE c = "0" -> 0 [] c = "1" -> 1 [] c = "2" -> 2 [] c = "3" -> 3
      [] c = "4" -> 4 [] c = "5" -> 5 [] c = "6" -> 6 [] c = "7" -> 7
      [] c = "8" -> 8 [] c = "9" -> 9

\* str.replace(a, b) on one character
Replace(c, a, b) == IF c = a THEN b ELSE c

\* s[from:to]: a slice never raises, it is cut at the end of the string
SliceTo(s, from, hi) ==
    IF from >= hi THEN <<>> ELSE [i \in 1..(hi - from) |-> s[from + i]]
Slice(s, from, to) == SliceTo(s, from, IF to < Len(s) THEN to ELSE Len(s))

\* the replacements with the values of "w" and "x" taken for one another
PermChar_wx_swapped(c) ==
    Replace(Replace(Replace(Replace(c, "-", "0"), "r", "4"), "w", "1"), "x", "2")

\* .replace("-", "0").replace("r", "4").replace("w", "2").replace("x", "1")
PermChar(c) == Replace(Replace(Replace(Replace(c, "-", "0"), "r", "4"), "w", "2"), "x", "1")
PermChars(s) == [i \in 1..Len(s) |-> PermChar(s[i])]

\* int(file_perm[i]) + int(file_perm[i+1]) + int(file_perm[i+2]), i counted from 0
TripletSum(perm, i) ==
    IF Len(perm) < i + 1 THEN Raise("IndexError")
    ELSE IF perm[i + 1] \notin Digits THEN Raise("ValueError")
    ELSE IF Len(perm) < i + 2 THEN Raise("IndexError")
    ELSE IF perm[i + 2] \notin Digits THEN Raise("ValueError")
    ELSE IF Len(perm) < i + 3 THEN Raise("IndexError")
    ELSE IF perm[i + 3] \notin Digits THEN Raise("ValueError")
    ELSE Ok(DigitVal(perm[i + 1]) + DigitVal(perm[i + 2]) + DigitVal(perm[i + 3]))

\* the sum that __parse_permissions returns, from the file type digit and the
\* three triplet sums: int(file_type) * 8**5 + owner * 8**2 + group * 8 + other
perm_octal(file_type, owner, group, other) ==
    IF file_type \notin Digits THEN Raise("ValueError")
    ELSE IF owner.exc # "none" THEN owner
    ELSE IF group.exc # "none" THEN group
    ELSE IF other.exc # "none" THEN other
    ELSE Ok(DigitVal(file_type) * 32768 + owner.val * 64 + group.val * 8 + other.val)

\* the digits of FileInfo.__parse_permissions, from file_mode[0] and file_perm
parse_triplets(file_type, file_perm) ==
    perm_octal(file_type, TripletSum(file_perm, 0), TripletSum(file_perm, 3),
               TripletSum(file_perm, 6))

\* FileInfo.__parse_permissions
parse_permissions(file_mode) ==
    IF Len(file_mode) = 0 THEN Raise("IndexError")
    ELSE parse_triplets(Replace(Replace(file_mode[1], "d", "4"), "-", "1"),
                        PermChars(Slice(file_mode, 1, 10)))

\* the file_mode argument of FileInfo.__init__: an int, a str or None
ModeInt(n) == [t |-> "int", v |-> n, s |-> <<>>]
ModeStr(str) == [t |-> "str", v |-> 0, s |-> str]
ModeNone == [t |-> "none", v |-> 0, s |-> <<>>]

\* the attributes FileInfo.__init__ sets
NewFileInfo(file_name, file_mtime, mode, file_size) ==
    Ok([file_name |-> file_name, file_size |-> file_size,
        file_mtime |-> file_mtime, file_mode |-> mode])

\* FileInfo.__init__ for a str file_mode, p the result of __parse_permissions
ParsedFileInfo(p, file_name, file_mtime, file_size) ==
    IF p.exc # "none" THEN Raise(p.exc)
    ELSE NewFileInfo(file_name, file_mtime, p.val, file_size)

\* FileInfo.__init__ with a numeric file_mtime (Client and session callers)
FileInfo(file_name, file_mtime, file_mode, file_size) ==
    IF file_mode.t = "str"
    THEN ParsedFileInfo(parse_permissions(file_mode.s), file_name, file_mtime, file_size)
    ELSE IF file_mode.t = "none"
    THEN NewFileInfo(file_name, file_mtime, 0, file_size)
    ELSE NewFileInfo(file_name, file_mtime, file_mode.v, file_size)

\* from_stat_data with st_size and st_mtime taken for one another
from_stat_data_swapped(data, file_name) ==
    FileInfo(file_name, data.st_size, ModeInt(data.st_mode), data.st_mtime)

\* FileInfo.from_stat_data for the result of stat()/putfo()/os.stat() with
\* an explicit file_name: st_mode is an int, st_size and st_mtime are set
from_stat_data(data, file_name) ==
    FileInfo(file_name, data.st_mtime, ModeInt(data.st_mode), data.st_size)

-----------------------------------------------------------------------------
(* The servers and the local disk, as the session libraries show them *)

\* str.lstrip("/")
RECURSIVE Lstrip(_)
Lstrip(s) == IF s # <<>> /\ Head(s) = "/" THEN Lstrip(Tail(s)) ELSE s

\* the directory a path names on the server, seen from directory cur
Resolve(cur, dir) ==
    IF dir # <<>> /\ Head(dir) = "/" THEN dir
    ELSE IF dir = <<>> THEN cur
    ELSE IF cur = RootDir \/ cur = None THEN RootDir \o dir
    ELSE cur \o <<"/">> \o dir

\* what stat() reports for an entry of a directory
StatOf(e) == [st_mode |-> ServerMode, st_size |-> e.size, st_mtime |-> e.mtime]

\* the outcome of a session call: exception, FileInfo, and the state left
SOut(exc, info, c, fs, cmds) ==
    [exc |-> exc, info |-> info, cwd |-> c, fs |-> fs, cmds |-> cmds]

\* a session call that ends by building a FileInfo, fi the constructor's result
InfoOut(fi, c, fs, cmds) ==
    IF fi.exc # "none" THEN SOut(fi.exc, NoInfo, c, fs, cmds)
    ELSE SOut("none", fi.val, c, fs, cmds)

\* the time a server (or the local disk) stamps on a file written now
WriteMtime == MaxMtime

\* the directory after a file of n bytes has been written under a name
PutEntry(fs, d, file_name, n) ==
    [fs EXCEPT ![d][file_name] = [size |-> n, mtime |-> WriteMtime]]

\* the outcome of write_file: a session outcome, the local disk, and whether
\* the bytes reached the destination
WOut(o, lfs, stored) ==
    [exc |-> o.exc, info |-> o.info, cwd |-> o.cwd, fs |-> o.fs, cmds |-> o.cmds,
     lfs |-> lfs, stored |-> stored]

\* os.stat(local_file) and FileInfo.from_stat_data, lfs2 the disk after the write
local_stat(lfs2, c, fs, file_name, dir) ==
    WOut(InfoOut(from_stat_data(StatOf(lfs2[dir][file_name]), file_name), c, fs, <<>>),
         lfs2, TRUE)

\* the io.BytesIO of a File, as its length and its position: seek(0), and the
\* number of bytes a reader gets that reads from the position to the end
seek_start(file) == [file EXCEPT !.stream_pos = 0]
stream_rest(file) == file.stream_len - file.stream_pos

\* the local branch of write_file (both sessions): open(dir/name, "wb"),
\* write(getbuffer()), os.stat; the whole buffer is written whatever its position
local_write(c, fs, lfs, file, dir, fault) ==
    IF fault \/ dir \notin DOMAIN lfs
    THEN WOut(SOut("RetrieverFileError", NoInfo, c, fs, <<>>), lfs, FALSE)
    ELSE local_stat(PutEntry(lfs, dir, file.file_name, file.stream_len), c, fs,
                    file.file_name, dir)

-----------------------------------------------------------------------------
(* _clients.py: _sftpClient *)

\* paramiko.SFTPClient.chdir: None resets, a missing directory is an IOError
sftp_chdir(c, dir, fs) ==
    IF dir = None THEN [exc |-> "none", cwd |-> None]
    ELSE IF Resolve(c, dir) \notin DOMAIN fs THEN [exc |-> "OSError", cwd |-> c]
    ELSE [exc |-> "none", cwd |-> Resolve(c, dir)]

\* the outcome of _check_dir: r the outcome of its last chdir
DirOut(r, cmds) == [exc |-> r.exc, cwd |-> r.cwd, cmds |-> cmds]

\* _sftpClient._check_dir
sftp_check_dir(c, dir, fs) ==
    IF c = None
    THEN DirOut(sftp_chdir(c, dir, fs), <<"chdir">>)
    ELSE IF Lstrip(c) # Lstrip(dir)
    THEN DirOut(sftp_chdir(None, dir, fs), <<"chdir", "chdir">>)
    ELSE [exc |-> "none", cwd |-> c, cmds |-> <<>>]

\* _sftpClient.get_file_data after _check_dir (cd its outcome): stat and
\* from_stat_data; fault: the server refuses the stat
sftp_stat(cd, fs, file_name, fault) ==
    IF cd.exc # "none"
    THEN SOut("RetrieverFileError", NoInfo, cd.cwd, fs, cd.cmds)
    ELSE IF fault \/ ~IsFile(fs[cd.cwd][file_name])
    THEN SOut("RetrieverFileError", NoInfo, cd.cwd, fs, cd.cmds \o <<"stat">>)
    ELSE InfoOut(from_stat_data(StatOf(fs[cd.cwd][file_name]), file_name),
                 cd.cwd, fs, cd.cmds \o <<"stat">>)

\* _sftpClient.get_file_data
sftp_get_file_data(c, fs, file_name, dir, fault) ==
    sftp_stat(sftp_check_dir(c, dir, fs), fs, file_name, fault)

\* putfo's return value and from_stat_data, fs2 the server after the write
sftp_stored(fs2, c, lfs, file_name, cmds) ==
    WOut(InfoOut(from_stat_data(StatOf(fs2[c][file_name]), file_name), c, fs2, cmds),
         lfs, TRUE)

\* _sftpClient.write_file after _check_dir (cd its outcome): putfo of n bytes
sftp_putfo(cd, fs, lfs, file, fault, n) ==
    IF cd.exc # "none"
    THEN WOut(SOut("RetrieverFileError", NoInfo, cd.cwd, fs, cd.cmds), lfs, FALSE)
    ELSE IF fault
    THEN WOut(SOut("RetrieverFileError", NoInfo, cd.cwd, fs, cd.cmds \o <<"putfo">>),
              lfs, FALSE)
    ELSE sftp_stored(PutEntry(fs, cd.cwd, file.file_name, n), cd.cwd, lfs,
                     file.file_name, cd.cmds \o <<"putfo">>)

\* write_file without the seek(0): putfo reads a stream that fetch_file left
\* at its end, and stores no byte
sftp_write_file_no_rewind(c, fs, lfs, file, dir, remote, fault) ==
    IF remote
    THEN sftp_putfo(sftp_check_dir(c, dir, fs), fs, lfs, file, fault, stream_rest(file))
    ELSE local_write(c, fs, lfs, file, dir, fault)

\* _sftpClient.write_file; the stream is rewound by seek(0) before putfo, so
\* putfo sends its stream_len bytes from any starting position
sftp_write_file(c, fs, lfs, file, dir, remote, fault) ==
    IF remote
    THEN sftp_putfo(sftp_check_dir(c, dir, fs), fs, lfs, file, fault,
                    stream_rest(seek_start(file)))
    ELSE local_write(c, fs, lfs, file, dir, fault)

-----------------------------------------------------------------------------
(* _clients.py: _ftpClient *)

\* _check_dir with a cwd(dir) whatever pwd() says
ftp_check_dir_always(c, dir, fs) ==
    IF Resolve(c, dir) \in DOMAIN fs
    THEN [exc |-> "none", cwd |-> Resolve(c, dir), cmds |-> <<"PWD", "CWD">>]
    ELSE [exc |-> "error_perm", cwd |-> c, cmds |-> <<"PWD", "CWD">>]

\* _ftpClient._check_dir: pwd(), then cwd(dir) when the two differ
ftp_check_dir(c, dir, fs) ==
    IF Lstrip(c) # Lstrip(dir)
    THEN IF Resolve(c, dir) \in DOMAIN fs
         THEN [exc |-> "none", cwd |-> Resolve(c, dir), cmds |-> <<"PWD", "CWD">>]
         ELSE [exc |-> "error_perm", cwd |-> c, cmds |-> <<"PWD", "CWD">>]
    ELSE [exc |-> "none", cwd |-> c, cmds |-> <<"PWD">>]

\* the first try block of _ftpClient.get_file_data once MLSD has answered, e
\* the entry of file_name in the listing: dir_data[file_name] and
\* FileInfo(..., file_mode="10" + unix.mode)
ftp_mlsd_entry(e, c, fs, file_name) ==
    IF ~IsFile(e)
    THEN SOut("KeyError", NoInfo, c, fs, <<"PWD", "MLSD">>)
    ELSE InfoOut(FileInfo(file_name, e.mtime, ModeStr(<<"1", "0">> \o UnixMode), e.size),
                 c, fs, <<"PWD", "MLSD">>)

\* the first try block of _ftpClient.get_file_data
ftp_mlsd_file_data(c, fs, file_name, dir) ==
    ftp_mlsd_entry(fs[Resolve(c, dir)][file_name], c, fs, file_name)

\* the end of the second try block with the replies of SIZE and MDTM taken for
\* one another
ftp_fallback_info_swapped(back, e, fs, file_name, cmds) ==
    IF back.exc # "none"
    THEN SOut("RetrieverFileError", NoInfo, back.cwd, fs, cmds \o back.cmds)
    ELSE InfoOut(FileInfo(file_name, e.size, ModeStr(ListPerms), e.mtime),
                 back.cwd, fs, cmds \o back.cmds)

\* the end of the second try block: _check_dir(current_dir), back its outcome,
\* and FileInfo(file_name, size, time[4:], permissions)
ftp_fallback_info(back, e, fs, file_name, cmds) ==
    IF back.exc # "none"
    THEN SOut("RetrieverFileError", NoInfo, back.cwd, fs, cmds \o back.cmds)
    ELSE InfoOut(FileInfo(file_name, e.mtime, ModeStr(ListPerms), e.size),
                 back.cwd, fs, cmds \o back.cmds)

\* the second try block after _check_dir(dir), cd its outcome: LIST, SIZE,
\* MDTM; a refused command leaves the session in dir
ftp_list_size_mdtm(cd, c, fs, file_name, fault) ==
    IF cd.exc # "none"
    THEN SOut("RetrieverFileError", NoInfo, cd.cwd, fs, <<"PWD", "MLSD">> \o cd.cmds)
    ELSE IF fault \/ ~IsFile(fs[cd.cwd][file_name])
    THEN SOut("RetrieverFileError", NoInfo, cd.cwd, fs,
              <<"PWD", "MLSD">> \o cd.cmds \o <<"LIST", "SIZE">>)
    ELSE ftp_fallback_info(ftp_check_dir(cd.cwd, c, fs), fs[cd.cwd][file_name], fs,
                           file_name,
                           <<"PWD", "MLSD">> \o cd.cmds \o <<"LIST", "SIZE", "MDTM">>)

\* the second try block of _ftpClient.get_file_data
ftp_fallback_file_data(c, fs, file_name, dir, fault) ==
    ftp_list_size_mdtm(ftp_check_dir(c, dir, fs), c, fs, file_name, fault)

\* get_file_data with the second try block entered also when the listing
\* that MLSD returned does not hold the file
ftp_get_file_data_fallback_on_missing(c, fs, mlsd, file_name, dir, fault) ==
    IF /\ mlsd /\ ~fault /\ Resolve(c, dir) \in DOMAIN fs
       /\ IsFile(fs[Resolve(c, dir)][file_name])
    THEN ftp_mlsd_file_data(c, fs, file_name, dir)
    ELSE ftp_fallback_file_data(c, fs, file_name, dir, fault)

\* _ftpClient.get_file_data; mlsd: the server accepts MLSD; fault: the server
\* refuses the lookup with a 5xx reply
ftp_get_file_data(c, fs, mlsd, file_name, dir, fault) ==
    IF mlsd /\ ~fault /\ Resolve(c, dir) \in DOMAIN fs
    THEN ftp_mlsd_file_data(c, fs, file_name, dir)
    ELSE ftp_fallback_file_data(c, fs, file_name, dir, fault)

\* the return of _ftpClient.write_file: g the outcome of the get_file_data
\* that follows STOR, fs2 the server after the write
ftp_stored(g, fs2, lfs, cmds) ==
    WOut(SOut(g.exc, g.info, g.cwd, fs2, cmds \o g.cmds), lfs, TRUE)

\* _ftpClient.write_file after _check_dir (cd its outcome): STOR, which reads
\* the stream from its position to its end, and get_file_data
ftp_stor(cd, fs, lfs, mlsd, file, dir, fault, after) ==
    IF cd.exc # "none"
    THEN WOut(SOut("RetrieverFileError", NoInfo, cd.cwd, fs, cd.cmds), lfs, FALSE)
    ELSE IF fault
    THEN WOut(SOut("RetrieverFileError", NoInfo, cd.cwd, fs, cd.cmds \o <<"STOR">>),
              lfs, FALSE)
    ELSE ftp_stored(ftp_get_file_data(cd.cwd,
                                      PutEntry(fs, cd.cwd, file.file_name, stream_rest(file)),
                                      mlsd, file.file_name, dir, after),
                    PutEntry(fs, cd.cwd, file.file_name, stream_rest(file)),
                    lfs, cd.cmds \o <<"STOR">>)

\* write_file without the seek(0): STOR sends what lies after the position
ftp_write_file_no_seek(c, fs, lfs, mlsd, file, dir, remote, fault, after) ==
    IF remote
    THEN ftp_stor(ftp_check_dir(c, dir, fs), fs, lfs, mlsd, file, dir, fault, after)
    ELSE local_write(c, fs, lfs, file, dir, fault)

\* _ftpClient.write_file: file_stream.seek(0), then STOR; after: the server
\* refuses the lookup that follows STOR
ftp_write_file(c, fs, lfs, mlsd, file, dir, remote, fault, after) ==
    IF remote
    THEN ftp_stor(ftp_check_dir(c, dir, fs), fs, lfs, mlsd, seek_start(file), dir, fault,
                  after)
    ELSE local_write(c, fs, lfs, file, dir, fault)

-----------------------------------------------------------------------------
(* connect.py: Client, the orchestrator get_recent_files drives.  Its source *)
(* is not in the repository snapshot; it is modelled from the design text.   *)

\* Client.session.get_file_data, by session variant
session_get_file_data(v, c, fs, mlsd, file_name, dir, fault) ==
    IF v = "ftp" THEN ftp_get_file_data(c, fs, mlsd, file_name, dir, fault)
    ELSE sftp_get_file_data(c, fs, file_name, dir, fault)

\* Client.session.write_file, by session variant
session_write_file(v, c, fs, lfs, mlsd, file, dir, remote, fault, after) ==
    IF v = "ftp" THEN ftp_write_file(c, fs, lfs, mlsd, file, dir, remote, fault, after)
    ELSE sftp_write_file(c, fs, lfs, file, dir, remote, fault)

\* Client.file_exists for a remote target, g the outcome of get_file_data:
\* RetrieverFileError is False, otherwise name and size are compared
remote_exists(g, file) ==
    IF g.exc = "RetrieverFileError"
    THEN [exc |-> "none", flag |-> FALSE, lookup |-> "failed",
          cwd |-> g.cwd, cmds |-> g.cmds]
    ELSE IF g.exc # "none"
    THEN [exc |-> g.exc, flag |-> FALSE, lookup |-> "raised",
          cwd |-> g.cwd, cmds |-> g.cmds]
    ELSE [exc |-> "none",
          flag |-> (g.info.file_name = file.file_name
                    /\ g.info.file_size = file.file_size),
          lookup |-> "ok", cwd |-> g.cwd, cmds |-> g.cmds]

\* Client.file_exists: remote, one get_file_data; local, os.path.exists
file_exists(v, c, fs, lfs, mlsd, file, dir, remote, fault) ==
    IF remote
    THEN remote_exists(session_get_file_data(v, c, fs, mlsd, file.file_name, dir, fault),
                       file)
    ELSE [exc |-> "none",
          flag |-> (dir \in DOMAIN lfs /\ IsFile(lfs[dir][file.file_name])),
          lookup |-> "local", cwd |-> c, cmds |-> <<>>]

\* Client.put_file when the file is not skipped, w the outcome of write_file
put_written(x, w) ==
    [result |-> IF w.exc = "none" THEN "info" ELSE "raise",
     exc |-> w.exc, info |-> w.info, lookup |-> x.lookup,
     cwd |-> w.cwd, fs |-> w.fs, lfs |-> w.lfs, cmds |-> x.cmds \o w.cmds,
     delegated |-> TRUE, stored |-> w.stored]

\* Client.put_file after the existence check, x its outcome: None when the
\* file exists, otherwise the session's write_file
put_checked(x, v, fs, lfs, mlsd, file, dir, remote, fault) ==
    IF x.exc # "none"
    THEN [result |-> "raise", exc |-> x.exc, info |-> NoInfo, lookup |-> x.lookup,
          cwd |-> x.cwd, fs |-> fs, lfs |-> lfs, cmds |-> x.cmds,
          delegated |-> FALSE, stored |-> FALSE]
    ELSE IF x.flag
    THEN [result |-> "null", exc |-> "none", info |-> NoInfo, lookup |-> x.lookup,
          cwd |-> x.cwd, fs |-> fs, lfs |-> lfs, cmds |-> x.cmds,
          delegated |-> FALSE, stored |-> FALSE]
    ELSE put_written(x, session_write_file(v, x.cwd, fs, lfs, mlsd, file, dir, remote,
                                           fault = "write", fault = "after"))

\* Client.put_file: file_exists first when check is set
put_file(v, c, fs, lfs, mlsd, file, dir, remote, check, fault) ==
    IF check
    THEN put_checked(file_exists(v, c, fs, lfs, mlsd, file, dir, remote, fault = "lookup"),
                     v, fs, lfs, mlsd, file, dir, remote, fault)
    ELSE put_checked([exc |-> "none", flag |-> FALSE, lookup |-> "skipped",
                      cwd |-> c, cmds |-> <<>>],
                     v, fs, lfs, mlsd, file, dir, remote, fault)

-----------------------------------------------------------------------------
(* The put specification: one Client on a destination, any sequence of      *)
(* file_exists and put_file calls                                           *)

\* the File objects handed to the Client: metadata and a stream of stream_len
\* bytes that stands at its end, where fetch_file leaves it
PutNames == {"foo.mrc"}
Files ==
    {f \in [file_name : PutNames, file_size : Sizes, file_mtime : Mtimes,
            file_mode : FileModes, stream_len : Sizes, stream_pos : Sizes] :
        f.stream_pos = f.stream_len}
\* metadata alone, as file_exists reads it: that of a listing entry, or one
\* with another mtime and another mode
Infos ==
    {f \in Files : /\ f.stream_len = f.file_size
                    /\ \/ f.file_mtime = 1 /\ f.file_mode = ServerMode
                       \/ f.file_mtime = MaxMtime /\ f.file_mode # ServerMode}
\* fetched files: the metadata of one listing entry, and the bytes fetched,
\* all file_size of them or none
Fetched ==
    {f \in Files : /\ f.file_mtime = 1 /\ f.file_mode = ServerMode
                    /\ f.stream_len \in {f.file_size, 0}}

PutFaults == {"none", "lookup", "write", "after"}

\* the directory contents a call addresses: the server's or the local disk's
Holder(fs, lfs, remote) == IF remote THEN fs ELSE lfs
EntryAt(fs, lfs, remote, dir, name) ==
    IF dir \in DOMAIN Holder(fs, lfs, remote)
    THEN Holder(fs, lfs, remote)[dir][name] ELSE NoFile

NoOp ==
    [op |-> "init", file_name |-> "", file_size |-> 0, file_mtime |-> 0,
     file_mode |-> 0, stream_len |-> 0, dir |-> RootDir, remote |-> FALSE,
     check |-> FALSE, before |-> NoFile,
     afterWrite |-> FALSE, chain |-> FALSE, exact |-> FALSE,
     result |-> "none", exc |-> "none", info |-> NoInfo, lookup |-> "skipped",
     cmds |-> <<>>, delegated |-> FALSE, stored |-> FALSE]

\* the destinations the model starts from: bar.mrc, and foo.mrc or not
BarDir == [EmptyDir EXCEPT !["bar.mrc"] = [size |-> 0, mtime |-> 1]]
InitDirs ==
    {BarDir} \cup
    {[BarDir EXCEPT !["foo.mrc"] = [size |-> sz, mtime |-> 1]] : sz \in Sizes}

\* a session as its constructor leaves it: FTP in the login directory, SFTP
\* with no working directory set
LoginCwd(v) == IF v = "ftp" THEN RootDir ELSE None

\* a destination Client, newly constructed, on any of the destinations
NewDestination ==
    /\ variant \in {"ftp", "sftp"}
    /\ mlsdOk \in BOOLEAN
    /\ variant = "sftp" => ~mlsdOk
    /\ \E d \in InitDirs : remoteFs = (RootDir :> EmptyDir) @@ (DstDir :> d)
    /\ localFs = (DstDir :> BarDir)
    /\ cwd = LoginCwd(variant)
    /\ lastOp = NoOp

\* an entry of a source directory: listed or not, st_mtime set or None
NoEntry == [there |-> FALSE, has |-> FALSE, t |-> 0]
NoCall ==
    [op |-> "init", time_delta |-> -1, now |-> 0, wasOpen |-> FALSE,
     exc |-> "none", val |-> <<>>, onClosed |-> FALSE]

\* no ConnectionClient in use
ConnIdle ==
    /\ connection = "closed"
    /\ srcFiles = [n \in FileNames |-> NoEntry]
    /\ osFiles = [n \in FileNames |-> NoEntry]
    /\ loginInSrc = TRUE
    /\ dstFiles = [n \in FileNames |-> "absent"]
    /\ lastCall = NoCall

NoFailure == [vendor |-> "", step |-> "", exc |-> "none"]

\* get_recent_files not running
SyncIdle ==
    /\ pc = "idle"
    /\ vi = 0
    /\ recentFiles = <<>>
    /\ pending = <<>>
    /\ opened = {}
    /\ closed = {}
    /\ attempted = {}
    /\ delivered = {}
    /\ failure = NoFailure
    /\ calls = <<>>

\* no File
NoFetch == [file_name |-> "", file_size |-> -1, file_mtime |-> 0, file_mode |-> -1,
            stream_len |-> -1, stream_pos |-> -1]

\* the attributes of a File that write_file reads: its name and its stream
StreamOf(file) ==
    [NoFetch EXCEPT !.file_name = file.file_name, !.stream_len = file.stream_len,
                    !.stream_pos = file.stream_pos]

\* the outcome of the last call on a _clients.py session; file: the name and
\* the stream of the File that fetch_file returned or write_file was handed
NoSess ==
    [op |-> "init", port |-> 0, reply |-> "", keys |-> TRUE, cls |-> "",
     connects |-> 0, dir |-> <<>>, name |-> "", remote |-> FALSE, fault |-> FALSE,
     before |-> None, path |-> <<>>, exc |-> "none", flag |-> FALSE,
     names |-> <<>>, cmds |-> <<>>, file |-> NoFetch, stored |-> FALSE,
     noop |-> <<>>, channel |-> "None", modes |-> <<>>]

\* no _clients.py session under test
SessIdle ==
    /\ sess = "none"
    /\ lastSess = NoSess

NoArg == [kind |-> "none", s |-> <<>>, t |-> <<>>]
NotParsed == [done |-> FALSE, exc |-> "none", val |-> 0, exc2 |-> "none", val2 |-> 0]

\* no parser at work
ParseIdle ==
    /\ arg = NoArg
    /\ parsed = NotParsed

PutInit == NewDestination /\ ConnIdle /\ SyncIdle /\ SessIdle /\ ParseIdle

\* connect.file_exists(file, dir, remote)
FileExists ==
    \E file \in Infos, dir \in Dirs, remote \in BOOLEAN, fault \in BOOLEAN :
        \E x \in {file_exists(variant, cwd, remoteFs, localFs, mlsdOk,
                               file, dir, remote, fault)} :
            /\ cwd' = x.cwd
            /\ lastOp' = [NoOp EXCEPT
                   !.op = "exists", !.file_name = file.file_name,
                   !.file_size = file.file_size, !.file_mtime = file.file_mtime,
                   !.file_mode = file.file_mode,
                   !.stream_len = file.stream_len, !.dir = dir, !.remote = remote,
                   !.before = EntryAt(remoteFs, localFs, remote, dir, file.file_name),
                   !.result = IF x.exc # "none" THEN "raise"
                              ELSE IF x.flag THEN "true" ELSE "false",
                   !.exc = x.exc, !.lookup = x.lookup, !.cmds = x.cmds]
            /\ UNCHANGED <<variant, mlsdOk, remoteFs, localFs, connVars, syncVars, sessVars, parseVars>>

\* history: this put_file(check=True) comes in a run of such calls for one
\* (name, size) and one destination in which a write has already succeeded
AfterWrite(file, dir, remote, check) ==
    /\ check
    /\ lastOp.op = "put" /\ lastOp.chain
    /\ lastOp.file_name = file.file_name /\ lastOp.file_size = file.file_size
    /\ lastOp.dir = dir /\ lastOp.remote = remote

\* connect.put_file(file, dir, remote, check)
PutFile ==
    \E file \in Fetched, dir \in Dirs, remote \in BOOLEAN, check \in BOOLEAN :
      \E fault \in {f \in PutFaults : (f = "after" => (variant = "ftp" /\ remote))
                                       /\ (f = "lookup" => (check /\ remote))} :
        \E r \in {put_file(variant, cwd, remoteFs, localFs, mlsdOk,
                            file, dir, remote, check, fault)} :
            /\ cwd' = r.cwd
            /\ remoteFs' = r.fs
            /\ localFs' = r.lfs
            /\ lastOp' = [NoOp EXCEPT
                   !.op = "put", !.file_name = file.file_name,
                   !.file_size = file.file_size, !.file_mtime = file.file_mtime,
                   !.stream_len = file.stream_len, !.dir = dir, !.remote = remote,
                   !.check = check, !.file_mode = file.file_mode,
                   !.before = EntryAt(remoteFs, localFs, remote, dir, file.file_name),
                   !.afterWrite = AfterWrite(file, dir, remote, check),
                   !.chain = (check /\ (r.stored \/ AfterWrite(file, dir, remote, check))),
                   !.exact = (/\ file.stream_len = file.file_size
                              /\ AfterWrite(file, dir, remote, check) => lastOp.exact),
                   !.result = r.result, !.exc = r.exc, !.info = r.info,
                   !.lookup = r.lookup, !.cmds = r.cmds,
                   !.delegated = r.delegated, !.stored = r.stored]
            /\ UNCHANGED <<variant, mlsdOk, connVars, syncVars, sessVars, parseVars>>

PutNext == FileExists \/ PutFile

PutSpec == PutInit /\ [][PutNext]_vars

-----------------------------------------------------------------------------
(* Claims about put_file and file_exists, checked under PutSpec *)

\* the destination held a file of the call's name and size when it was called
Held == IsFile(lastOp.before) /\ lastOp.before.size = lastOp.file_size

\* the call issued a write on the session or wrote the local file
Wrote == lastOp.delegated \/ lastOp.stored

C3_ExistsNeverRaises ==
    lastOp.op = "exists" =>
        /\ (lastOp.remote /\ ~IsFile(lastOp.before))
              => (lastOp.result = "false" /\ lastOp.exc = "none")
        /\ (lastOp.remote /\ lastOp.lookup = "failed") => lastOp.result = "false"
        /\ ~lastOp.remote =>
              /\ lastOp.cmds = <<>>
              /\ lastOp.result = IF IsFile(lastOp.before) THEN "true" ELSE "false"

\* C4: file_exists(remote=True) answers True exactly when get_file_data
\* returns and the destination's file has the size of the given file; the
\* given file's mtime and mode play no part, and a destination file of
\* another size, or only a file of another name, gives False.
C4_ExistsKeyIsNameAndSize ==
    (lastOp.op = "exists" /\ lastOp.remote) =>
        /\ lastOp.result = "true" <=> (lastOp.lookup = "ok" /\ Held)
        /\ (lastOp.lookup = "ok" /\ ~Held) => lastOp.result = "false"
        /\ lastOp.lookup = "ok" => IsFile(lastOp.before)

C4_Witness ==
    /\ lastOp.op = "exists" /\ lastOp.remote /\ lastOp.result = "true"
    /\ lastOp.before.mtime # lastOp.file_mtime
    /\ lastOp.file_mode # ServerMode

-----------------------------------------------------------------------------
(* connect.py: _sftpClient, _ftpClient and ConnectionClient.  Times are     *)
(* hours counted from 2024-01-01T00:00:00Z.                                 *)

\* datetime objects: naive (datetime.now()) or aware (tz=timezone.utc)
Naive(t) == [aware |-> FALSE, t |-> t]
Aware(t) == [aware |-> TRUE, t |-> t]

HoursPerDay == 24

\* d - datetime.timedelta(days=n)
MinusDays(d, n) == [aware |-> d.aware, t |-> d.t - HoursPerDay * n]

\* a >= b on datetimes: Python refuses to order a naive and an aware datetime
DatetimeGe(a, b) ==
    IF a.aware # b.aware THEN [exc |-> "TypeError", val |-> FALSE]
    ELSE [exc |-> "none", val |-> a.t >= b.t]

\* the order in which a server lists a directory
NameOrder == <<"bar.mrc", "foo.mrc">>
Listed(src, n) == src[n].there
Listing(src) == SelectSeq(NameOrder, LAMBDA n : Listed(src, n))

\* the values of the time_delta argument: None (below zero here) or days
TimeDeltas == {-1, 0, 1, 4}
IsNone(time_delta) == time_delta < 0

\* the values datetime.now() takes, and the mtimes of the source files
Clock == {12, 97, 98}
SrcMtimes == {1, 50}

\* _sftpClient.list_file_names / _ftpClient.list_file_names: listdir, or cwd
\* and NLST; a closed connection fails on the first command
connect_list_file_names(conn, src) ==
    IF conn = "closed"
    THEN [exc |-> "ClosedError", val |-> <<>>, onClosed |-> TRUE]
    ELSE [exc |-> "none", val |-> Listing(src), onClosed |-> FALSE]

\* _sftpClient.get_file_data: connection.stat(file_dir/file)
connect_sftp_get_file_data(conn, src, file) ==
    IF conn = "closed"
    THEN [exc |-> "ClosedError", has |-> FALSE, t |-> 0, onClosed |-> TRUE]
    ELSE IF ~src[file].there
    THEN [exc |-> "OSError", has |-> FALSE, t |-> 0, onClosed |-> FALSE]
    ELSE [exc |-> "none", has |-> src[file].has, t |-> src[file].t, onClosed |-> FALSE]

\* _ftpClient.get_file_data: connection.cwd(file_dir), then os.stat(file) in
\* the working directory of the process
connect_ftp_get_file_data(conn, os, file) ==
    IF conn = "closed"
    THEN [exc |-> "ClosedError", has |-> FALSE, t |-> 0, onClosed |-> TRUE]
    ELSE IF ~os[file].there
    THEN [exc |-> "OSError", has |-> FALSE, t |-> 0, onClosed |-> FALSE]
    ELSE [exc |-> "none", has |-> TRUE, t |-> os[file].t, onClosed |-> FALSE]

\* client.get_file_data, by the class _create_client has chosen
connect_get_file_data(v, conn, src, os, file) ==
    IF v = "ftp" THEN connect_ftp_get_file_data(conn, os, file)
    ELSE connect_sftp_get_file_data(conn, src, file)

\* file_data.st_mtime is not None and
\* datetime.fromtimestamp(file_data.st_mtime, tz=utc) >= today - timedelta(days=time_delta)
is_recent(file_data, today, time_delta) ==
    IF ~file_data.has THEN [exc |-> "none", val |-> FALSE]
    ELSE DatetimeGe(Aware(file_data.t), MinusDays(today, time_delta))

\* one turn of the loop over files: recent its test, rest the later turns
recent_append(recent, rest, file) ==
    IF recent.exc # "none" THEN [exc |-> recent.exc, val |-> <<>>, onClosed |-> FALSE]
    ELSE IF rest.exc # "none" THEN rest
    ELSE [exc |-> "none",
          val |-> IF recent.val THEN <<file>> \o rest.val ELSE rest.val,
          onClosed |-> FALSE]

\* one turn of the loop over files, file_data the outcome of get_file_data
recent_check(file_data, rest, file, today, time_delta) ==
    IF file_data.exc # "none"
    THEN [exc |-> file_data.exc, val |-> <<>>, onClosed |-> file_data.onClosed]
    ELSE recent_append(is_recent(file_data, today, time_delta), rest, file)

\* the loop "for file in files" of list_files and get_files
RECURSIVE recent_files(_, _, _, _, _, _, _)
recent_files(v, conn, src, os, files, today, time_delta) ==
    IF files = <<>> THEN [exc |-> "none", val |-> <<>>, onClosed |-> FALSE]
    ELSE recent_check(connect_get_file_data(v, conn, src, os, Head(files)),
                      recent_files(v, conn, src, os, Tail(files), today, time_delta),
                      Head(files), today, time_delta)

\* the outcome of a ConnectionClient call; leaving "with self.client" has
\* closed the connection (__exit__)
CallOut(exc, val, dst, onClosed) ==
    [exc |-> exc, val |-> val, conn |-> "closed", dst |-> dst, onClosed |-> onClosed]

\* list_files and get_files after list_file_names, names its outcome: the
\* files to return or to retrieve
select_files(names, v, conn, src, os, today, time_delta) ==
    IF names.exc # "none" THEN names
    ELSE IF ~IsNone(time_delta)
    THEN recent_files(v, conn, src, os, names.val, today, time_delta)
    ELSE names

\* the return of list_files, sel the files selected
list_files_return(sel, dst) ==
    IF sel.exc # "none" THEN CallOut(sel.exc, <<>>, dst, sel.onClosed)
    ELSE CallOut("none", sel.val, dst, FALSE)

\* ConnectionClient.list_files(time_delta, src_file_dir)
list_files(v, conn, src, os, dst, today, time_delta) ==
    list_files_return(select_files(connect_list_file_names(conn, src),
                                   v, conn, src, os, today, time_delta), dst)

\* the outcome of retrieve_file; open(dst_dir/file, "wb") has made the local
\* file before the transfer fails
RetrieveOut(exc, conn, dst, onClosed) ==
    [exc |-> exc, conn |-> conn, dst |-> dst, onClosed |-> onClosed]

\* _ftpClient.retrieve_file: with self.connection, open and RETR; leaving the
\* with block quits and closes the connection
connect_ftp_retrieve_file(conn, dst, file) ==
    IF conn = "closed"
    THEN RetrieveOut("ClosedError", "closed", [dst EXCEPT ![file] = "empty"], TRUE)
    ELSE RetrieveOut("none", "closed", [dst EXCEPT ![file] = "whole"], FALSE)

\* _sftpClient.retrieve_file: with self.connection, get(file, dst_dir/file),
\* the remote path taken from the login directory; leaving the with block
\* closes the connection
connect_sftp_retrieve_file(conn, dst, login, file) ==
    IF conn = "closed"
    THEN RetrieveOut("ClosedError", "closed", [dst EXCEPT ![file] = "empty"], TRUE)
    ELSE IF ~login
    THEN RetrieveOut("OSError", "closed", [dst EXCEPT ![file] = "empty"], FALSE)
    ELSE RetrieveOut("none", "closed", [dst EXCEPT ![file] = "whole"], FALSE)

\* client.retrieve_file, by the class _create_client has chosen
connect_retrieve_file(v, conn, dst, login, file) ==
    IF v = "ftp" THEN connect_ftp_retrieve_file(conn, dst, file)
    ELSE connect_sftp_retrieve_file(conn, dst, login, file)

\* the loop "for file in get_files": r the outcome of one retrieve_file
RECURSIVE retrieve_all(_, _, _, _, _)
retrieve_rest(r, v, login, rest) ==
    IF r.exc # "none" THEN r
    ELSE retrieve_all(v, r.conn, r.dst, login, rest)
retrieve_all(v, conn, dst, login, files) ==
    IF files = <<>> THEN RetrieveOut("none", conn, dst, FALSE)
    ELSE retrieve_rest(connect_retrieve_file(v, conn, dst, login, Head(files)),
                       v, login, Tail(files))

\* the return of get_files, r the outcome of the retrievals
get_files_return(r, files) ==
    IF r.exc # "none" THEN CallOut(r.exc, <<>>, r.dst, r.onClosed)
    ELSE CallOut("none", files, r.dst, FALSE)

\* get_files after the selection, sel its outcome
get_files_retrieve(sel, v, conn, dst, login) ==
    IF sel.exc # "none" THEN CallOut(sel.exc, <<>>, dst, sel.onClosed)
    ELSE get_files_return(retrieve_all(v, conn, dst, login, sel.val), sel.val)

\* ConnectionClient.get_files(time_delta, src_file_dir, dst_file_dir)
get_files(v, conn, src, os, dst, login, today, time_delta) ==
    get_files_retrieve(select_files(connect_list_file_names(conn, src),
                                    v, conn, src, os, today, time_delta),
                       v, conn, dst, login)

-----------------------------------------------------------------------------
(* The connection specification: one ConnectionClient, any sequence of      *)
(* list_files and get_files calls                                           *)

SrcEntries ==
    {NoEntry, [there |-> TRUE, has |-> FALSE, t |-> 0]}
        \cup {[there |-> TRUE, has |-> TRUE, t |-> t] : t \in SrcMtimes}
OsEntries == {NoEntry, [there |-> TRUE, has |-> TRUE, t |-> 1]}

\* no destination Client in use
PutIdle ==
    /\ mlsdOk = FALSE
    /\ remoteFs = (RootDir :> EmptyDir)
    /\ localFs = (DstDir :> EmptyDir)
    /\ cwd = None
    /\ lastOp = NoOp

\* ConnectionClient.__init__: _create_client has connected
ConnInit ==
    /\ variant \in {"ftp", "sftp"}
    /\ connection = "open"
    /\ srcFiles \in [FileNames -> SrcEntries]
    /\ osFiles \in [FileNames -> OsEntries]
    /\ variant = "sftp" => osFiles = [n \in FileNames |-> NoEntry]
    /\ loginInSrc \in BOOLEAN
    /\ variant = "ftp" => loginInSrc
    /\ dstFiles = [n \in FileNames |-> "absent"]
    /\ lastCall = NoCall
    /\ PutIdle /\ SyncIdle /\ SessIdle /\ ParseIdle

\* ConnectionClient.list_files(time_delta)
ListFiles ==
    \E time_delta \in TimeDeltas, now \in Clock :
        \E r \in {list_files(variant, connection, srcFiles, osFiles, dstFiles,
                              Naive(now), time_delta)} :
            /\ connection' = r.conn
            /\ lastCall' = [op |-> "list", time_delta |-> time_delta, now |-> now,
                            wasOpen |-> (connection = "open"),
                            exc |-> r.exc, val |-> r.val, onClosed |-> r.onClosed]
            /\ UNCHANGED <<srcFiles, osFiles, loginInSrc, dstFiles, putVars, syncVars, sessVars, parseVars>>

\* ConnectionClient.get_files(time_delta)
GetFiles ==
    \E time_delta \in TimeDeltas, now \in Clock :
        \E r \in {get_files(variant, connection, srcFiles, osFiles, dstFiles,
                             loginInSrc, Naive(now), time_delta)} :
            /\ connection' = r.conn
            /\ dstFiles' = r.dst
            /\ lastCall' = [op |-> "get", time_delta |-> time_delta, now |-> now,
                            wasOpen |-> (connection = "open"),
                            exc |-> r.exc, val |-> r.val, onClosed |-> r.onClosed]
            /\ UNCHANGED <<srcFiles, osFiles, loginInSrc, putVars, syncVars, sessVars, parseVars>>

ConnNext == ListFiles \/ GetFiles

ConnSpec == ConnInit /\ [][ConnNext]_vars

-----------------------------------------------------------------------------
(* Claims about list_files and get_files, checked under ConnSpec *)

\* the listed files whose st_mtime is set
Dated == {n \in FileNames : srcFiles[n].there /\ srcFiles[n].has}

\* the names the last call returned
Returned == {lastCall.val[i] : i \in DOMAIN lastCall.val}

\* now - window <= mtime <= now, for the window and the clock of the last call
InWindow(n) ==
    /\ lastCall.now - HoursPerDay * lastCall.time_delta <= srcFiles[n].t
    /\ srcFiles[n].t <= lastCall.now

\* C5: with a time window, list_files on an open connection returns exactly
\* the listed files whose mtime lies in [now - window, now].
C5_ListRecentIsWindow ==
    (lastCall.op = "list" /\ lastCall.wasOpen /\ ~IsNone(lastCall.time_delta)) =>
        /\ lastCall.exc = "none"
        /\ \A n \in Dated : n \in Returned <=> InWindow(n)

\* C6: a window of zero, like no window, returns the whole listing.
C6_ZeroWindowListsAll ==
    (lastCall.op = "list" /\ lastCall.wasOpen /\ lastCall.time_delta <= 0) =>
        /\ lastCall.exc = "none"
        /\ lastCall.val = Listing(srcFiles)

\* the directory of the scenario: foo.mrc alone, modified 2024-01-01T01:00Z
FooOnly ==
    [n \in FileNames |-> IF n = "foo.mrc" THEN [there |-> TRUE, has |-> TRUE, t |-> 1]
                         ELSE NoEntry]

\* C7: on the scenario directory a 4-day window returns nothing at
\* 2024-01-05T01:00Z (hour 97) and foo.mrc at 2024-01-01T12:00Z (hour 12).
C7_BoundaryScenario ==
    (/\ lastCall.op = "list" /\ lastCall.wasOpen /\ lastCall.time_delta = 4
     /\ srcFiles = FooOnly) =>
        /\ lastCall.exc = "none"
        /\ lastCall.now = 97 => lastCall.val = <<>>
        /\ lastCall.now = 12 => lastCall.val = <<"foo.mrc">>

\* C8: no call of list_files or get_files, and no retrieval of a file, sends
\* a command on a connection that has been closed.
C8_NoCommandOnceClosed == ~lastCall.onClosed

-----------------------------------------------------------------------------
(* utils.py: get_recent_files, one statement at a time *)

Vendors == <<"FOO", "BAR", "BAZ">>
Nsdrop == "NSDROP"

\* what the Client constructor can raise in connect(name)
ConnectFaults == {"none", "RetrieverAuthenticationError", "RetrieverConnectionError"}

\* the file_list of a vendor: the FileInfo objects list_file_info returns
FileLists == {<<>>, <<"foo.mrc">>, <<"foo.mrc", "bar.mrc">>}

\* client.get_file(file, remote_dir): the File fetched for a listed name
FetchedFile(n) ==
    [file_name |-> n, file_size |-> 0, file_mtime |-> 1, file_mode |-> ServerMode,
     stream_len |-> 0, stream_pos |-> 0]

\* os.environ[f"{vendor.upper()}_SRC"] and os.environ[f"{vendor.upper()}_DST"]:
\* the name of the variable, and its value; every vendor's files go to /d
EnvKey(vendor, suffix) == <<vendor, suffix>>
Environ(key) == IF key[2] = "_DST" THEN DstDir ELSE RootDir

\* a call on a session: connect(name) returning it, its __exit__, and the
\* Client methods with their arguments
Call(op, client, name, dir) ==
    [op |-> op, client |-> client, name |-> name, dir |-> dir,
     remote |-> FALSE, check |-> FALSE]
PutCall(name, dir, remote, check) ==
    [op |-> "put_file", client |-> Nsdrop, name |-> name, dir |-> dir,
     remote |-> remote, check |-> check]
OpenCall(client) == Call("open", client, "", <<>>)
CloseCall(client) == Call("close", client, "", <<>>)
ListCall(vendor) == Call("list_file_info", vendor, "", EnvKey(vendor, "_SRC"))
GetCall(vendor, name) == Call("get_file", vendor, name, EnvKey(vendor, "_SRC"))

\* a for loop that takes the last file of file_list first
last_file(file_list) == file_list[Len(file_list)]

\* for file in file_list: the file of the next iteration
next_file(file_list) == Head(file_list)

\* an exception leaves get_recent_files from a step of a vendor's turn
Raised(vendor, step, exc) ==
    /\ pc' = "raised"
    /\ failure' = [vendor |-> vendor, step |-> step, exc |-> exc]

\* leaving "with connect(vendor) as client": Client.__exit__ closes the
\* session, after the calls made in the block
ExitWith(vendor, made) ==
    /\ closed' = closed \cup {vendor}
    /\ calls' = calls \o made \o <<CloseCall(vendor)>>

SyncInit ==
    /\ NewDestination
    /\ ConnIdle
    /\ SessIdle
    /\ ParseIdle
    /\ pc = "start"
    /\ vi = 1
    /\ recentFiles \in [1..Len(Vendors) -> FileLists]
    /\ pending = <<>>
    /\ opened = {}
    /\ closed = {}
    /\ attempted = {}
    /\ delivered = {}
    /\ failure = NoFailure
    /\ calls = <<>>

\* nsdrop_client = connect("nsdrop")
ConnectNsdrop ==
    /\ pc = "start"
    /\ \E f \in ConnectFaults :
          IF f = "none"
          THEN /\ opened' = opened \cup {Nsdrop}
               /\ calls' = Append(calls, OpenCall(Nsdrop))
               /\ pc' = "vendor"
               /\ UNCHANGED failure
          ELSE /\ Raised(Nsdrop, "connect", f)
               /\ UNCHANGED <<opened, calls>>
    /\ UNCHANGED <<vi, recentFiles, pending, closed, attempted, delivered,
                   putVars, connVars, sessVars, parseVars>>

\* for vendor in vendors: connect(vendor)
ConnectVendor ==
    /\ pc = "vendor"
    /\ vi <= Len(Vendors)
    /\ attempted' = attempted \cup {Vendors[vi]}
    /\ \E f \in ConnectFaults :
          IF f = "none"
          THEN /\ opened' = opened \cup {Vendors[vi]}
               /\ calls' = Append(calls, OpenCall(Vendors[vi]))
               /\ pc' = "list"
               /\ UNCHANGED failure
          ELSE /\ Raised(Vendors[vi], "connect", f)
               /\ UNCHANGED <<opened, calls>>
    /\ UNCHANGED <<vi, recentFiles, pending, closed, delivered, putVars, connVars, sessVars, parseVars>>

\* file_list = client.list_file_info(...); continue when it is empty
ListVendor ==
    /\ pc = "list"
    /\ \E fault \in BOOLEAN :
          IF fault
          THEN /\ Raised(Vendors[vi], "list", "RetrieverFileError")
               /\ ExitWith(Vendors[vi], <<ListCall(Vendors[vi])>>)
               /\ UNCHANGED <<vi, pending>>
          ELSE IF recentFiles[vi] = <<>>
          THEN /\ ExitWith(Vendors[vi], <<ListCall(Vendors[vi])>>)
               /\ vi' = vi + 1
               /\ pc' = "vendor"
               /\ UNCHANGED <<pending, failure>>
          ELSE /\ pending' = recentFiles[vi]
               /\ calls' = Append(calls, ListCall(Vendors[vi]))
               /\ pc' = "transfer"
               /\ UNCHANGED <<vi, closed, failure>>
    /\ UNCHANGED <<recentFiles, opened, attempted, delivered, putVars, connVars, sessVars, parseVars>>

\* one iteration of "for file in file_list" after the fetch, r the outcome of
\* nsdrop_client.put_file and made the two calls of the iteration
TransferPut(r, file_name, made) ==
    /\ cwd' = r.cwd
    /\ remoteFs' = r.fs
    /\ localFs' = r.lfs
    /\ IF r.result = "raise"
       THEN /\ Raised(Vendors[vi], "put_file", r.exc)
            /\ ExitWith(Vendors[vi], made)
            /\ UNCHANGED <<vi, pending, delivered>>
       ELSE /\ delivered' = delivered \cup {<<Vendors[vi], file_name>>}
            /\ pending' = Tail(pending)
            /\ UNCHANGED failure
            /\ IF Tail(pending) = <<>>
               THEN /\ ExitWith(Vendors[vi], made)
                    /\ vi' = vi + 1
                    /\ pc' = "vendor"
               ELSE /\ calls' = calls \o made
                    /\ UNCHANGED <<vi, closed, pc>>

\* for file in file_list: client.get_file, then nsdrop_client.put_file(
\* file=fetched_file, dir=..._DST, remote=True, check=True)
TransferFile ==
    /\ pc = "transfer"
    /\ \E file_name \in {next_file(pending)}, fetchFault \in BOOLEAN :
          IF fetchFault
          THEN /\ Raised(Vendors[vi], "get_file", "RetrieverFileError")
               /\ ExitWith(Vendors[vi], <<GetCall(Vendors[vi], file_name)>>)
               /\ UNCHANGED <<vi, pending, delivered, cwd, remoteFs, localFs>>
          ELSE \E fault \in {f \in PutFaults : f = "after" => variant = "ftp"} :
               \E r \in {put_file(variant, cwd, remoteFs, localFs, mlsdOk,
                                   FetchedFile(file_name),
                                   Environ(EnvKey(Vendors[vi], "_DST")), TRUE, TRUE,
                                   fault)} :
                  TransferPut(r, file_name,
                              <<GetCall(Vendors[vi], file_name),
                                PutCall(file_name, EnvKey(Vendors[vi], "_DST"),
                                        TRUE, TRUE)>>)
    /\ UNCHANGED <<variant, mlsdOk, lastOp, recentFiles, opened, attempted, connVars,
                   sessVars, parseVars>>

\* the loop over vendors is exhausted: get_recent_files returns None
ReturnNone ==
    /\ pc = "vendor"
    /\ vi > Len(Vendors)
    /\ pc' = "returned"
    /\ UNCHANGED <<vi, recentFiles, pending, opened, closed, attempted, delivered,
                   failure, calls, putVars, connVars, sessVars, parseVars>>

SyncNext == ConnectNsdrop \/ ConnectVendor \/ ListVendor \/ TransferFile \/ ReturnNone

SyncSpec == SyncInit /\ [][SyncNext]_vars

-----------------------------------------------------------------------------
(* Claims about get_recent_files, checked under SyncSpec *)

\* get_recent_files has returned or an exception has left it
Left == pc \in {"returned", "raised"}

\* C9: when get_recent_files returns or raises, every session it opened, the
\* vendors' and NSDROP's, has been closed.
C9_EverySessionReleased == Left => opened \subseteq closed

\* C10: a failure in one vendor's turn ends that turn only; once the NSDROP
\* session is open, get_recent_files does not end before connect() has been
\* called for every vendor of the list.
C10_FailureAbortsOneVendorOnly ==
    (Left /\ Nsdrop \in opened) => \A i \in 1..Len(Vendors) : Vendors[i] \in attempted

\* the calls of the iterations over a file_list: each file fetched from the
\* vendor's SRC and put, remote and checked, at the vendor's DST
RECURSIVE FileCalls(_, _)
FileCalls(vendor, file_list) ==
    IF file_list = <<>> THEN <<>>
    ELSE <<GetCall(vendor, Head(file_list)),
           PutCall(Head(file_list), EnvKey(vendor, "_DST"), TRUE, TRUE)>>
         \o FileCalls(vendor, Tail(file_list))

\* the calls of the turns of the vendors from the i-th on: the session
\* opened, the listing, the files of the listing, the session closed
RECURSIVE TurnCalls(_)
TurnCalls(i) ==
    IF i > Len(Vendors) THEN <<>>
    ELSE <<OpenCall(Vendors[i]), ListCall(Vendors[i])>>
         \o FileCalls(Vendors[i], recentFiles[i])
         \o <<CloseCall(Vendors[i])>>
         \o TurnCalls(i + 1)

IsPrefix(s, t) == Len(s) <= Len(t) /\ s = SubSeq(t, 1, Len(s))

\* C29: as long as no exception has left get_recent_files, the calls it has
\* made are the beginning of this sequence, and all of it once it has
\* returned: NSDROP opened, then for each vendor in list order its session
\* opened, its listing taken, every listed file in listing order fetched from
\* the vendor's SRC and put once with remote=True and check=True at the
\* vendor's DST, and its session closed before the next vendor's is opened; a
\* vendor with an empty listing has no fetch and no put.
C29_VendorsInOrderFilesOnce ==
    /\ pc \notin {"idle", "raised"} =>
           IsPrefix(calls, <<OpenCall(Nsdrop)>> \o TurnCalls(1))
    /\ pc = "returned" => calls = <<OpenCall(Nsdrop)>> \o TurnCalls(1)

\* get_recent_files has returned after a vendor with two files, a vendor with
\* none and a vendor with one
C29_Witness ==
    /\ pc = "returned"
    /\ recentFiles = <<(<<"foo.mrc", "bar.mrc">>), <<>>, (<<"foo.mrc">>)>>
    /\ Len(calls) = 16
    /\ calls[4] = GetCall("FOO", "foo.mrc")
    /\ calls[7] = PutCall("bar.mrc", EnvKey("FOO", "_DST"), TRUE, TRUE)
    /\ calls[8] = CloseCall("FOO")
    /\ calls[9] = OpenCall("BAR")
    /\ calls[11] = CloseCall("BAR")

-----------------------------------------------------------------------------
(* connect.py: _create_client, over the constructors of _clients.py *)

FtpPort == 21
SftpPort == 22

\* what the network and the server do to a connection attempt: the login is
\* accepted, the credentials are rejected, the server answers but refuses
\* the session (FTP 4xx reply, SSH negotiation failure), or no connection can
\* be made to the host at all (refused, timed out, unknown host)
ConnectReplies == {"accepted", "rejected", "refused", "unreachable"}

\* the outcome of a constructor: the exception, and how many connections to
\* the server were attempted
Connected(exc, connects) == [exc |-> exc, connects |-> connects]

\* _ftpClient._connect_to_server: error_perm and error_temp are translated,
\* the OSError of a socket that cannot connect is not
ftp_connect_to_server(reply) ==
    IF reply = "accepted" THEN Connected("none", 1)
    ELSE IF reply = "rejected" THEN Connected("RetrieverAuthenticationError", 1)
    ELSE IF reply = "refused" THEN Connected("RetrieverConnectionError", 1)
    ELSE Connected("OSError", 1)

\* _sftpClient._connect_to_server: the host keys file is found or made from
\* known_hosts before the try block (keys: there is one to read); then
\* AuthenticationException and SSHException are translated, the socket error
\* of a host that cannot be reached is not
sftp_connect_to_server(reply, keys) ==
    IF ~keys THEN Connected("OSError", 0)
    ELSE IF reply = "accepted" THEN Connected("none", 1)
    ELSE IF reply = "rejected" THEN Connected("RetrieverAuthenticationError", 1)
    ELSE IF reply = "refused" THEN Connected("RetrieverConnectionError", 1)
    ELSE Connected("OSError", 1)

\* the client _create_client returns or the exception that leaves it, c the
\* outcome of the constructor of class cls
NewSession(cls, c) == [exc |-> c.exc, cls |-> cls, connects |-> c.connects]

\* _create_client with the two port numbers taken for one another
create_client_ports_swapped(port, reply, keys) ==
    IF port = SftpPort THEN NewSession("ftp", ftp_connect_to_server(reply))
    ELSE IF port = FtpPort THEN NewSession("sftp", sftp_connect_to_server(reply, keys))
    ELSE [exc |-> "ValueError", cls |-> "none", connects |-> 0]

\* ConnectionClient._create_client
create_client(port, reply, keys) ==
    IF port = FtpPort THEN NewSession("ftp", ftp_connect_to_server(reply))
    ELSE IF port = SftpPort THEN NewSession("sftp", sftp_connect_to_server(reply, keys))
    ELSE [exc |-> "ValueError", cls |-> "none", connects |-> 0]

-----------------------------------------------------------------------------
(* _clients.py: the server's directories as the sessions address them *)

\* a subdirectory of the destination directory
SubDir == DstDir \o <<"/", "sub">>
DirNames == {"d", "g", "sub"}

\* f"{dir}/{file_name}"
JoinPath(dir, name) == dir \o <<"/", name>>

\* the directory a path names on the server: resolved from the working
\* directory, a doubled slash read as one
RECURSIVE Collapse(_)
Collapse(p) ==
    IF Len(p) < 2 THEN p
    ELSE IF p[1] = "/" /\ p[2] = "/" THEN Collapse(Tail(p))
    ELSE <<p[1]>> \o Collapse(Tail(p))
ServerPath(c, p) == Collapse(Resolve(c, p))

\* the entries of a directory d of the server, files and subdirectories, in
\* the order the server lists them
EntryOrder == <<"bar.mrc", "sub", "d", "foo.mrc", "g">>
HasEntry(fs, d, n) ==
    \/ n \in FileNames /\ IsFile(fs[d][n])
    \/ n \in DirNames /\ Resolve(d, <<n>>) \in DOMAIN fs
DirListing(fs, d) == SelectSeq(EntryOrder, LAMBDA n : HasEntry(fs, d, n))
FileListing(fs, d) == SelectSeq(DirListing(fs, d), LAMBDA n : n \in FileNames)

\* the attributes a server reports for an entry: those of the file, or those
\* of a directory (drwxr-xr-x)
EntryStat(fs, d, n) ==
    IF n \in FileNames THEN StatOf(fs[d][n])
    ELSE [st_mode |-> 16877, st_size |-> 0, st_mtime |-> 1]

\* the outcome of a session call that returns a flag, a list or a File
FlagOut(exc, val, c, path, cmds) ==
    [exc |-> exc, val |-> val, cwd |-> c, path |-> path, cmds |-> cmds]
ListOut(exc, val, c, cmds) == [exc |-> exc, val |-> val, cwd |-> c, cmds |-> cmds]
FetchOut(exc, file, c, cmds) == [exc |-> exc, file |-> file, cwd |-> c, cmds |-> cmds]

\* File.from_fileinfo(file, fh), fh holding the n bytes the server sent and
\* standing after the last of them
from_fileinfo(file, n) ==
    [file_name |-> file.file_name, file_size |-> file.file_size,
     file_mtime |-> file.file_mtime, file_mode |-> file.file_mode, stream_len |-> n,
     stream_pos |-> n]

-----------------------------------------------------------------------------
(* _clients.py: _ftpClient._is_file, fetch_file, list_file_names,           *)
(* list_file_data                                                           *)

\* _is_file after an accepted CWD: _check_dir(current_dir), back its outcome;
\* an error_perm on the way back is answered True like a rejected CWD
ftp_is_file_back(back, target) ==
    FlagOut("none", back.exc # "none", back.cwd, target, <<"PWD", "CWD">> \o back.cmds)

\* _is_file without the _check_dir(current_dir) that follows an accepted CWD
ftp_is_file_probe_no_restore(target, c, fs) ==
    IF target \in DOMAIN fs
    THEN FlagOut("none", FALSE, target, target, <<"PWD", "CWD">>)
    ELSE FlagOut("none", TRUE, c, target, <<"PWD", "CWD">>)

\* _is_file from the CWD on: target is the directory "CWD {dir}/{file_name}"
\* names
ftp_is_file_probe(target, c, fs) ==
    IF target \in DOMAIN fs
    THEN ftp_is_file_back(ftp_check_dir(target, c, fs), target)
    ELSE FlagOut("none", TRUE, c, target, <<"PWD", "CWD">>)

\* _ftpClient._is_file
ftp_is_file(c, dir, file_name, fs) ==
    ftp_is_file_probe(ServerPath(c, JoinPath(IF dir = <<>> THEN c ELSE dir, file_name)),
                      c, fs)

\* fetch_file after RETR: _check_dir(current_dir), back its outcome, and the
\* File returned
ftp_fetch_back(back, file, n, cmds) ==
    IF back.exc # "none"
    THEN FetchOut("RetrieverFileError", NoFetch, back.cwd, cmds \o back.cmds)
    ELSE FetchOut("none", from_fileinfo(file, n), back.cwd, cmds \o back.cmds)

\* a fetch_file that returns the File without going back to current_dir
ftp_retr_no_restore(cd, c, fs, file, fault) ==
    IF cd.exc # "none"
    THEN FetchOut("RetrieverFileError", NoFetch, cd.cwd, <<"PWD">> \o cd.cmds)
    ELSE IF fault \/ ~IsFile(fs[cd.cwd][file.file_name])
    THEN FetchOut("RetrieverFileError", NoFetch, cd.cwd,
                  <<"PWD">> \o cd.cmds \o <<"RETR">>)
    ELSE FetchOut("none", from_fileinfo(file, fs[cd.cwd][file.file_name].size),
                  cd.cwd, <<"PWD">> \o cd.cmds \o <<"RETR">>)

\* fetch_file after _check_dir(dir), cd its outcome: RETR; a refused command
\* leaves the session in dir
ftp_retr(cd, c, fs, file, fault) ==
    IF cd.exc # "none"
    THEN FetchOut("RetrieverFileError", NoFetch, cd.cwd, <<"PWD">> \o cd.cmds)
    ELSE IF fault \/ ~IsFile(fs[cd.cwd][file.file_name])
    THEN FetchOut("RetrieverFileError", NoFetch, cd.cwd,
                  <<"PWD">> \o cd.cmds \o <<"RETR">>)
    ELSE ftp_fetch_back(ftp_check_dir(cd.cwd, c, fs), file,
                        fs[cd.cwd][file.file_name].size,
                        <<"PWD">> \o cd.cmds \o <<"RETR">>)

\* _ftpClient.fetch_file
ftp_fetch_file(c, fs, file, dir, fault) ==
    ftp_retr(ftp_check_dir(c, dir, fs), c, fs, file, fault)

\* _ftpClient.list_file_names: NLST dir and the base names; a directory that
\* is not there is answered with a 5xx reply
ftp_list_file_names(c, fs, dir, fault) ==
    IF fault \/ ServerPath(c, dir) \notin DOMAIN fs
    THEN ListOut("RetrieverFileError", <<>>, c, <<"NLST">>)
    ELSE ListOut("none", DirListing(fs, ServerPath(c, dir)), c, <<"NLST">>)

\* the list comprehension over an MLSD listing: one FileInfo for each entry
\* of type "file", fi the first and rest the later ones
ftp_mlsd_cons(fi, rest) ==
    IF fi.exc # "none" THEN Raise(fi.exc)
    ELSE IF rest.exc # "none" THEN rest
    ELSE Ok(<<fi.val>> \o rest.val)
RECURSIVE ftp_mlsd_infos(_, _, _)
ftp_mlsd_infos(names, fs, d) ==
    IF names = <<>> THEN Ok(<<>>)
    ELSE ftp_mlsd_cons(FileInfo(Head(names), fs[d][Head(names)].mtime,
                                ModeStr(<<"1", "0">> \o UnixMode),
                                fs[d][Head(names)].size),
                       ftp_mlsd_infos(Tail(names), fs, d))

\* the first try block of list_file_data once MLSD has answered, infos the
\* outcome of the list comprehension
ftp_mlsd_list(infos, c) ==
    IF infos.exc # "none" THEN ListOut(infos.exc, <<>>, c, <<"PWD", "MLSD">>)
    ELSE ListOut("none", infos.val, c, <<"PWD", "MLSD">>)

\* the loop "for name in file_names" of list_file_data: _is_file (p its
\* outcome), get_file_data for a file (g its outcome), and
\* _check_dir(current_dir) at the end of each turn (back its outcome)
RECURSIVE ftp_list_loop(_, _, _, _, _, _, _, _)
ftp_list_next(back, names, cur, fs, mlsd, dir, files, cmds) ==
    IF back.exc # "none"
    THEN ListOut("RetrieverFileError", <<>>, back.cwd, cmds \o back.cmds)
    ELSE ftp_list_loop(Tail(names), back.cwd, cur, fs, mlsd, dir, files,
                       cmds \o back.cmds)
ftp_list_got(g, names, cur, fs, mlsd, dir, files, cmds) ==
    IF g.exc # "none" THEN ListOut(g.exc, <<>>, g.cwd, cmds \o g.cmds)
    ELSE ftp_list_next(ftp_check_dir(g.cwd, cur, fs), names, cur, fs, mlsd, dir,
                       Append(files, g.info), cmds \o g.cmds)
ftp_list_probed(p, names, cur, fs, mlsd, dir, files, cmds) ==
    IF p.val
    THEN ftp_list_got(ftp_get_file_data(p.cwd, fs, mlsd, Head(names), dir, FALSE),
                      names, cur, fs, mlsd, dir, files, cmds \o p.cmds)
    ELSE ftp_list_next(ftp_check_dir(p.cwd, cur, fs), names, cur, fs, mlsd, dir,
                       files, cmds \o p.cmds)
ftp_list_loop(names, c, cur, fs, mlsd, dir, files, cmds) ==
    IF names = <<>> THEN ListOut("none", files, c, cmds)
    ELSE ftp_list_probed(ftp_is_file(c, dir, Head(names), fs),
                         names, cur, fs, mlsd, dir, files, cmds)

\* the second try block of list_file_data: NLST dir, then the loop
ftp_nlst_list(c, fs, mlsd, dir, fault) ==
    IF fault \/ ServerPath(c, dir) \notin DOMAIN fs
    THEN ListOut("RetrieverFileError", <<>>, c, <<"PWD", "MLSD", "NLST">>)
    ELSE ftp_list_loop(DirListing(fs, ServerPath(c, dir)), c, c, fs, mlsd, dir,
                       <<>>, <<"PWD", "MLSD", "NLST">>)

\* _ftpClient.list_file_data; mlsd: the server accepts MLSD; fault: the
\* server refuses the listing with a 5xx reply
ftp_list_file_data(c, fs, mlsd, dir, fault) ==
    IF mlsd /\ ~fault /\ ServerPath(c, dir) \in DOMAIN fs
    THEN ftp_mlsd_list(ftp_mlsd_infos(FileListing(fs, ServerPath(c, dir)), fs,
                                      ServerPath(c, dir)), c)
    ELSE ftp_nlst_list(c, fs, mlsd, dir, fault)

-----------------------------------------------------------------------------
(* _clients.py: _sftpClient._is_file, fetch_file, list_file_names,          *)
(* list_file_data                                                           *)

\* _sftpClient._is_file: lstat(f"{dir}/{file_name}") and the type character
\* of stat.filemode; the path is taken from the working directory
sftp_is_file(c, dir, file_name, fs) ==
    IF ServerPath(c, JoinPath(dir, file_name)) \in DOMAIN fs
    THEN FlagOut("none", FALSE, c, ServerPath(c, JoinPath(dir, file_name)), <<"lstat">>)
    ELSE IF /\ ServerPath(c, IF dir = <<>> THEN RootDir ELSE dir) \in DOMAIN fs
            /\ file_name \in FileNames
            /\ IsFile(fs[ServerPath(c, IF dir = <<>> THEN RootDir ELSE dir)][file_name])
    THEN FlagOut("none", TRUE, c, ServerPath(c, JoinPath(dir, file_name)), <<"lstat">>)
    ELSE FlagOut("OSError", FALSE, c, ServerPath(c, JoinPath(dir, file_name)), <<"lstat">>)

\* fetch_file after _check_dir(dir), cd its outcome: getfo
sftp_getfo(cd, fs, file, fault) ==
    IF cd.exc # "none"
    THEN FetchOut("RetrieverFileError", NoFetch, cd.cwd, cd.cmds)
    ELSE IF fault \/ ~IsFile(fs[cd.cwd][file.file_name])
    THEN FetchOut("RetrieverFileError", NoFetch, cd.cwd, cd.cmds \o <<"getfo">>)
    ELSE FetchOut("none", from_fileinfo(file, fs[cd.cwd][file.file_name].size),
                  cd.cwd, cd.cmds \o <<"getfo">>)

\* _sftpClient.fetch_file
sftp_fetch_file(c, fs, file, dir, fault) ==
    sftp_getfo(sftp_check_dir(c, dir, fs), fs, file, fault)

\* _sftpClient.list_file_names: listdir(dir)
sftp_list_file_names(c, fs, dir, fault) ==
    IF fault \/ ServerPath(c, dir) \notin DOMAIN fs
    THEN ListOut("RetrieverFileError", <<>>, c, <<"listdir">>)
    ELSE ListOut("none", DirListing(fs, ServerPath(c, dir)), c, <<"listdir">>)

\* [FileInfo.from_stat_data(data=i) for i in file_metadata]: every entry of
\* the listing, named by its filename attribute
sftp_attr_infos(names, fs, d) ==
    [i \in 1..Len(names) |-> from_stat_data(EntryStat(fs, d, names[i]), names[i]).val]

\* _sftpClient.list_file_data: listdir_attr(dir)
sftp_list_file_data(c, fs, dir, fault) ==
    IF fault \/ ServerPath(c, dir) \notin DOMAIN fs
    THEN ListOut("RetrieverFileError", <<>>, c, <<"listdir_attr">>)
    ELSE ListOut("none", sftp_attr_infos(DirListing(fs, ServerPath(c, dir)), fs,
                                         ServerPath(c, dir)),
                 c, <<"listdir_attr">>)

-----------------------------------------------------------------------------
(* _clients.py: is_active *)

\* ftplib's voidcmd: the reply is returned when it starts with "2"; any other
\* reply, and a connection that gives no reply, is raised as an exception
ftp_voidcmd(reply) ==
    IF reply = <<>> THEN Raise("EOFError")
    ELSE IF reply[1] = "2" THEN [exc |-> "none", val |-> reply]
    ELSE IF reply[1] \in {"1", "3"} THEN Raise("error_reply")
    ELSE IF reply[1] = "4" THEN Raise("error_temp")
    ELSE IF reply[1] = "5" THEN Raise("error_perm")
    ELSE Raise("error_proto")

\* _ftpClient.is_active after voidcmd("NOOP"), status its outcome:
\* status.startswith("2")
ftp_noop_status(status, c) ==
    IF status.exc # "none" THEN FlagOut(status.exc, FALSE, c, <<>>, <<"NOOP">>)
    ELSE FlagOut("none", status.val[1] = "2", c, <<>>, <<"NOOP">>)

\* _ftpClient.is_active
ftp_is_active(reply, c) == ftp_noop_status(ftp_voidcmd(reply), c)

\* _sftpClient.is_active: get_channel() is None, a closed channel or an open one
sftp_is_active(channel, c) ==
    IF channel = "None" \/ (channel # "None" /\ channel = "closed")
    THEN FlagOut("none", FALSE, c, <<>>, <<>>)
    ELSE FlagOut("none", TRUE, c, <<>>, <<>>)

-----------------------------------------------------------------------------
(* The session specification: _create_client makes one session of           *)
(* _clients.py, then any sequence of calls on it                            *)

\* a call on the session, by its class (the abstract methods of _BaseClient)
base_check_dir(v, c, dir, fs) ==
    IF v = "ftp" THEN ftp_check_dir(c, dir, fs) ELSE sftp_check_dir(c, dir, fs)
base_is_file(v, c, dir, file_name, fs) ==
    IF v = "ftp" THEN ftp_is_file(c, dir, file_name, fs)
    ELSE sftp_is_file(c, dir, file_name, fs)
base_fetch_file(v, c, fs, file, dir, fault) ==
    IF v = "ftp" THEN ftp_fetch_file(c, fs, file, dir, fault)
    ELSE sftp_fetch_file(c, fs, file, dir, fault)
base_get_file_data(v, c, fs, mlsd, file_name, dir, fault) ==
    IF v = "ftp" THEN ftp_get_file_data(c, fs, mlsd, file_name, dir, fault)
    ELSE sftp_get_file_data(c, fs, file_name, dir, fault)
base_list_file_data(v, c, fs, mlsd, dir, fault) ==
    IF v = "ftp" THEN ftp_list_file_data(c, fs, mlsd, dir, fault)
    ELSE sftp_list_file_data(c, fs, dir, fault)
base_list_file_names(v, c, fs, dir, fault) ==
    IF v = "ftp" THEN ftp_list_file_names(c, fs, dir, fault)
    ELSE sftp_list_file_names(c, fs, dir, fault)
base_write_file(v, c, fs, lfs, mlsd, file, dir, remote, fault, after) ==
    IF v = "ftp" THEN ftp_write_file(c, fs, lfs, mlsd, file, dir, remote, fault, after)
    ELSE sftp_write_file(c, fs, lfs, file, dir, remote, fault)

\* the port numbers handed to the constructor
Ports == {FtpPort, SftpPort, 1, 2121}

\* the dir arguments of the calls: absolute, relative ("d", "sub"), the root,
\* a directory that is not there, and the empty string of _is_file
RelDir == <<"d">>
CheckDirs == {RootDir, DstDir, RelDir, SubDir, <<"sub">>, GoneDir}
CallDirs == {DstDir, RelDir, GoneDir}
ProbeDirs == {DstDir, RelDir, <<>>}
ProbeNames == {"foo.mrc", "bar.mrc", "sub", "g"}

\* the file names of a list of FileInfo objects
InfoNames(infos) == [i \in 1..Len(infos) |-> infos[i].file_name]
InfoModes(infos) == [i \in 1..Len(infos) |-> infos[i].file_mode]

\* the server's tree: the destination directory, with a subdirectory or not
Tree(d, sub) ==
    IF sub THEN (RootDir :> EmptyDir) @@ (DstDir :> d) @@ (SubDir :> EmptyDir)
    ELSE (RootDir :> EmptyDir) @@ (DstDir :> d)

SessInit ==
    /\ sess = "none"
    /\ lastSess = NoSess
    /\ variant = "none"
    /\ cwd = None
    /\ mlsdOk \in BOOLEAN
    /\ \E d \in InitDirs, sub \in BOOLEAN : remoteFs = Tree(d, sub)
    /\ localFs = (DstDir :> BarDir)
    /\ lastOp = NoOp
    /\ ConnIdle /\ SyncIdle /\ ParseIdle

\* ConnectionClient.__init__: self.client = self._create_client()
CreateClient ==
    /\ sess = "none"
    /\ \E port \in Ports, reply \in ConnectReplies, keys \in BOOLEAN :
          \E r \in {create_client(port, reply, keys)} :
              /\ sess' = IF r.exc = "none" THEN "open" ELSE "failed"
              /\ variant' = IF r.exc = "none" THEN r.cls ELSE variant
              /\ cwd' = IF r.exc = "none" THEN LoginCwd(r.cls) ELSE cwd
              /\ lastSess' = [NoSess EXCEPT
                     !.op = "create", !.port = port, !.reply = reply, !.keys = keys,
                     !.cls = r.cls, !.connects = r.connects, !.exc = r.exc]
    /\ UNCHANGED <<mlsdOk, remoteFs, localFs, lastOp, connVars, syncVars, parseVars>>

\* session._check_dir(dir)
CheckDir ==
    /\ sess = "open"
    /\ \E dir \in CheckDirs :
          \E r \in {base_check_dir(variant, cwd, dir, remoteFs)} :
              /\ cwd' = r.cwd
              /\ lastSess' = [NoSess EXCEPT
                     !.op = "check_dir", !.dir = dir, !.before = cwd,
                     !.exc = r.exc, !.cmds = r.cmds]
    /\ UNCHANGED <<sess, variant, mlsdOk, remoteFs, localFs, lastOp,
                   connVars, syncVars, parseVars>>

\* session._is_file(dir, file_name)
IsFileProbe ==
    /\ sess = "open"
    /\ \E dir \in ProbeDirs, file_name \in ProbeNames :
          \E r \in {base_is_file(variant, cwd, dir, file_name, remoteFs)} :
              /\ cwd' = r.cwd
              /\ lastSess' = [NoSess EXCEPT
                     !.op = "is_file", !.dir = dir, !.name = file_name,
                     !.before = cwd, !.path = r.path, !.exc = r.exc,
                     !.flag = r.val, !.cmds = r.cmds]
    /\ UNCHANGED <<sess, variant, mlsdOk, remoteFs, localFs, lastOp,
                   connVars, syncVars, parseVars>>

\* the FileInfo objects handed to fetch_file: those of a listing
Fetchable == {f \in Infos : f.file_mtime = 1}

\* session.fetch_file(file, dir)
FetchFile ==
    /\ sess = "open"
    /\ \E file \in Fetchable, dir \in CallDirs, fault \in BOOLEAN :
          \E r \in {base_fetch_file(variant, cwd, remoteFs, file, dir, fault)} :
              /\ cwd' = r.cwd
              /\ lastSess' = [NoSess EXCEPT
                     !.op = "fetch_file", !.dir = dir, !.name = file.file_name,
                     !.fault = fault, !.before = cwd, !.exc = r.exc,
                     !.names = IF r.exc = "none" THEN <<r.file.file_name>> ELSE <<>>,
                     !.cmds = r.cmds, !.file = StreamOf(r.file)]
    /\ UNCHANGED <<sess, variant, mlsdOk, remoteFs, localFs, lastOp,
                   connVars, syncVars, parseVars>>

\* session.get_file_data(file_name, dir)
GetFileData ==
    /\ sess = "open"
    /\ \E file_name \in FileNames, dir \in CallDirs, fault \in BOOLEAN :
          \E r \in {base_get_file_data(variant, cwd, remoteFs, mlsdOk,
                                        file_name, dir, fault)} :
              /\ cwd' = r.cwd
              /\ lastSess' = [NoSess EXCEPT
                     !.op = "get_file_data", !.dir = dir, !.name = file_name,
                     !.fault = fault, !.before = cwd, !.exc = r.exc,
                     !.names = IF r.exc = "none" THEN <<r.info.file_name>> ELSE <<>>,
                     !.modes = IF r.exc = "none" THEN <<r.info.file_mode>> ELSE <<>>,
                     !.cmds = r.cmds]
    /\ UNCHANGED <<sess, variant, mlsdOk, remoteFs, localFs, lastOp,
                   connVars, syncVars, parseVars>>

\* session.list_file_data(dir)
ListFileData ==
    /\ sess = "open"
    /\ \E dir \in CallDirs \cup {SubDir}, fault \in BOOLEAN :
          \E r \in {base_list_file_data(variant, cwd, remoteFs, mlsdOk, dir, fault)} :
              /\ cwd' = r.cwd
              /\ lastSess' = [NoSess EXCEPT
                     !.op = "list_file_data", !.dir = dir, !.fault = fault,
                     !.before = cwd, !.exc = r.exc, !.names = InfoNames(r.val),
                     !.modes = InfoModes(r.val), !.cmds = r.cmds]
    /\ UNCHANGED <<sess, variant, mlsdOk, remoteFs, localFs, lastOp,
                   connVars, syncVars, parseVars>>

\* session.list_file_names(dir)
ListFileNames ==
    /\ sess = "open"
    /\ \E dir \in CallDirs, fault \in BOOLEAN :
          \E r \in {base_list_file_names(variant, cwd, remoteFs, dir, fault)} :
              /\ cwd' = r.cwd
              /\ lastSess' = [NoSess EXCEPT
                     !.op = "list_file_names", !.dir = dir, !.fault = fault,
                     !.before = cwd, !.exc = r.exc, !.names = r.val, !.cmds = r.cmds]
    /\ UNCHANGED <<sess, variant, mlsdOk, remoteFs, localFs, lastOp,
                   connVars, syncVars, parseVars>>

\* the Files handed to write_file: a wholly fetched File whose stream stands
\* at its end, where fetch_file leaves it, or at its start
Written ==
    UNION {{[f EXCEPT !.stream_pos = pos] : pos \in {0, f.stream_len}} :
              f \in {g \in Fetched : g.stream_len = g.file_size}}

\* session.write_file(file, dir, remote)
WriteFile ==
    /\ sess = "open"
    /\ \E file \in Written, dir \in {DstDir, GoneDir}, remote \in BOOLEAN :
       \E fault \in BOOLEAN :
       \E after \in {a \in BOOLEAN : a => (variant = "ftp" /\ remote /\ ~fault)} :
          \E r \in {base_write_file(variant, cwd, remoteFs, localFs, mlsdOk,
                                     file, dir, remote, fault, after)} :
              /\ cwd' = r.cwd
              /\ remoteFs' = r.fs
              /\ localFs' = r.lfs
              /\ lastSess' = [NoSess EXCEPT
                     !.op = "write_file", !.dir = dir, !.name = file.file_name,
                     !.remote = remote, !.fault = (fault \/ after), !.before = cwd,
                     !.exc = r.exc,
                     !.names = IF r.exc = "none" THEN <<r.info.file_name>> ELSE <<>>,
                     !.cmds = r.cmds, !.stored = r.stored,
                     !.file = IF r.stored THEN StreamOf(file) ELSE NoFetch]
    /\ UNCHANGED <<sess, variant, mlsdOk, lastOp, connVars, syncVars, parseVars>>

\* the replies a server gives to NOOP, none at all when the connection is
\* gone; the channel of an SFTP session
NoopReplies ==
    {<<"2", "0", "0">>, <<"2", "5", "0">>, <<"4", "2", "1">>, <<"4", "2", "6">>,
     <<"5", "0", "0">>, <<>>}
Channels == {"None", "open", "closed"}

\* session.is_active()
IsActive ==
    /\ sess = "open"
    /\ \E reply \in IF variant = "ftp" THEN NoopReplies ELSE {<<>>},
          channel \in IF variant = "ftp" THEN {"None"} ELSE Channels :
          \E r \in {IF variant = "ftp" THEN ftp_is_active(reply, cwd)
                    ELSE sftp_is_active(channel, cwd)} :
              /\ cwd' = r.cwd
              /\ lastSess' = [NoSess EXCEPT
                     !.op = "is_active", !.before = cwd, !.exc = r.exc,
                     !.flag = r.val, !.cmds = r.cmds,
                     !.noop = reply, !.channel = channel]
    /\ UNCHANGED <<sess, variant, mlsdOk, remoteFs, localFs, lastOp,
                   connVars, syncVars, parseVars>>

SessNext ==
    \/ CreateClient \/ CheckDir \/ IsFileProbe \/ FetchFile \/ GetFileData
    \/ ListFileData \/ ListFileNames \/ WriteFile \/ IsActive

SessSpec == SessInit /\ [][SessNext]_vars

-----------------------------------------------------------------------------
(* Claims about the sessions, checked under SessSpec *)

\* C11: the session class is chosen by the port alone: 21 gives the FTP
\* class, 22 the SFTP class, and any other port raises ValueError (invalid
\* port number) with no session made and no connection attempted.
C11_PortSelectsVariant ==
    lastSess.op = "create" =>
        /\ lastSess.port = FtpPort => lastSess.cls = "ftp"
        /\ lastSess.port = SftpPort => lastSess.cls = "sftp"
        /\ sess = "open" => variant = lastSess.cls
        /\ lastSess.port \notin {FtpPort, SftpPort} =>
              /\ lastSess.exc = "ValueError"
              /\ lastSess.cls = "none"
              /\ sess = "failed"
              /\ lastSess.connects = 0

C11_Witness ==
    /\ lastSess.op = "create" /\ lastSess.port \notin {FtpPort, SftpPort}
    /\ lastSess.exc = "ValueError" /\ sess = "failed"

\* C12: when a connection is attempted, for both classes, rejected
\* credentials raise RetrieverAuthenticationError and a connection that
\* cannot be established raises RetrieverConnectionError, and neither leaves
\* a session.
C12_ConstructionFailsTyped ==
    (lastSess.op = "create" /\ lastSess.connects > 0) =>
        /\ lastSess.reply = "rejected" =>
              lastSess.exc = "RetrieverAuthenticationError"
        /\ lastSess.reply \in {"refused", "unreachable"} =>
              lastSess.exc = "RetrieverConnectionError"
        /\ lastSess.reply # "accepted" => sess = "failed"

\* the calls of the public interface of a session
PublicOps ==
    {"fetch_file", "get_file_data", "list_file_data", "list_file_names", "write_file"}

\* C13: every failure of fetch_file, get_file_data, list_file_data,
\* list_file_names and write_file, FTP and SFTP, leaves the call as
\* RetrieverFileError and as nothing else.
C13_OnlyFileOperationFailed ==
    lastSess.op \in PublicOps => lastSess.exc \in {"none", "RetrieverFileError"}

\* the directory the last call named, as the server resolved it
CalledDir == ServerPath(lastSess.before, lastSess.dir)

\* C14: list_file_data of a directory that is there returns one entry for
\* each regular file of the directory and no entry for a subdirectory.
C14_ListSurfacesFilesOnly ==
    (/\ lastSess.op = "list_file_data" /\ ~lastSess.fault
     /\ CalledDir \in DOMAIN remoteFs) =>
        /\ lastSess.exc = "none"
        /\ \A i \in DOMAIN lastSess.names : lastSess.names[i] \in FileNames
        /\ \A n \in FileNames :
              IsFile(remoteFs[CalledDir][n]) =>
                  Cardinality({i \in DOMAIN lastSess.names : lastSess.names[i] = n}) = 1

C16_SftpRestoresDirectory ==
    (/\ variant = "sftp"
     /\ \/ lastSess.op \in {"fetch_file", "get_file_data"}
        \/ lastSess.op = "write_file" /\ lastSess.remote) =>
        cwd = lastSess.before

\* the call sent a change-directory command
ChangedDir ==
    \E i \in DOMAIN lastSess.cmds : lastSess.cmds[i] \in {"CWD", "chdir"}

\* C17: _check_dir(dir) sends a change-directory command exactly when the
\* session's directory differs from dir, leading slashes ignored, and when it
\* returns the session is in dir (the same path, or dir taken from the
\* directory the session was in).
C17_CheckDirCommandsOnlyOnChange ==
    lastSess.op = "check_dir" =>
        /\ ChangedDir <=> Lstrip(lastSess.before) # Lstrip(lastSess.dir)
        /\ ~ChangedDir => cwd = lastSess.before
        /\ lastSess.exc = "none" =>
              \/ Lstrip(cwd) = Lstrip(lastSess.dir)
              \/ cwd = Resolve(lastSess.before, lastSess.dir)

C17_Witness ==
    /\ lastSess.op = "check_dir" /\ lastSess.exc = "none"
    /\ lastSess.before = DstDir /\ lastSess.dir = RelDir
    /\ ~ChangedDir /\ cwd = DstDir

\* the commands of the multi-command fallback, and whether the server
\* answered the MLSD of the last call
FallbackCmds == {"LIST", "SIZE", "MDTM", "NLST"}
FallbackIssued == \E i \in DOMAIN lastSess.cmds : lastSess.cmds[i] \in FallbackCmds
MlsdAnswered == mlsdOk /\ ~lastSess.fault /\ CalledDir \in DOMAIN remoteFs

\* C18: FTP get_file_data and list_file_data send MLSD before any other
\* command to the server, and send LIST, SIZE, MDTM or NLST only when the
\* MLSD was rejected.
C18_FallbackOnlyAfterRejection ==
    (variant = "ftp" /\ lastSess.op \in {"get_file_data", "list_file_data"}) =>
        /\ Len(lastSess.cmds) >= 2
        /\ lastSess.cmds[1] = "PWD" /\ lastSess.cmds[2] = "MLSD"
        /\ FallbackIssued => ~MlsdAnswered
        /\ MlsdAnswered => Len(lastSess.cmds) = 2

C18_Witness ==
    /\ variant = "ftp" /\ lastSess.op = "list_file_data"
    /\ FallbackIssued /\ ~MlsdAnswered /\ lastSess.exc = "none"
    /\ Len(lastSess.names) = 2

\* the directory of the server in which the last call stood after its
\* _check_dir(dir)
UsedDir == base_check_dir(variant, lastSess.before, lastSess.dir, remoteFs).cwd

\* the entry that a write_file call wrote to: on the server or on the disk
WrittenEntry ==
    IF lastSess.remote THEN remoteFs[UsedDir][lastSess.name]
    ELSE localFs[lastSess.dir][lastSess.name]

\* after a fetch_file that returned, the stream holds every byte of the
\* remote file; after a write_file that wrote, the entry written holds every
\* byte of the stream, wherever the stream stood
C24_WholeBuffer ==
    /\ (lastSess.op = "fetch_file" /\ lastSess.exc = "none") =>
          lastSess.file.stream_len = remoteFs[UsedDir][lastSess.name].size
    /\ (lastSess.op = "write_file" /\ lastSess.stored) =>
          WrittenEntry.size = lastSess.file.stream_len

\* a write_file that follows a fetch_file and is handed the File it returned
\* writes an entry of the size the fetched entry had
C24_FetchedThenWritten ==
    (/\ lastSess.op = "fetch_file" /\ lastSess.exc = "none"
     /\ lastSess'.op = "write_file" /\ lastSess'.file = lastSess.file
     /\ lastSess'.stored) =>
        WrittenEntry'.size = remoteFs[UsedDir][lastSess.name].size

\* C24: fetch_file returns a File whose buffer holds the whole remote file;
\* write_file writes the buffer from its first byte to its last whatever the
\* position of the buffer; a file written right after being fetched has the
\* fetched content, never an empty or a partial one.
C24_FetchWriteWholeContent == []C24_WholeBuffer /\ [][C24_FetchedThenWritten]_vars

\* a File of one byte, fetched and left at its end, is written to the server
\* in full by the next call
C24_Witness ==
    /\ lastSess.op = "write_file" /\ lastSess.stored
    /\ lastSess.remote /\ variant = "ftp"
    /\ lastSess.file.stream_len = 1 /\ lastSess.file.stream_pos = 1
    /\ WrittenEntry.size = 1

\* the regular files of the directory the last call named
FilesThere == {n \in FileNames : IsFile(remoteFs[CalledDir][n])}

\* C26: when MLSD answers and reports a regular file with unix.mode 0644,
\* get_file_data and list_file_data return its metadata and do not fail, and
\* the file_mode they return is 33188, which is also what the LIST line
\* -rw-r--r-- is parsed to on the fallback path.
C26_ExtendedListingMode ==
    /\ parse_permissions(ListPerms) = Ok(ServerMode)
    /\ (variant = "ftp" /\ MlsdAnswered /\ lastSess.op = "get_file_data"
            /\ lastSess.name \in FilesThere) =>
          (lastSess.exc = "none" /\ lastSess.modes = <<ServerMode>>)
    /\ (variant = "ftp" /\ MlsdAnswered /\ lastSess.op = "list_file_data"
            /\ FilesThere # {}) =>
          /\ lastSess.exc = "none"
          /\ Len(lastSess.modes) = Cardinality(FilesThere)
          /\ \A i \in DOMAIN lastSess.modes : lastSess.modes[i] = ServerMode

\* C27: an FTP fetch_file, get_file_data or list_file_data that returns
\* leaves the session in the working directory it was in before the call,
\* whatever that directory and whatever the dir of the call.
C27_FtpSuccessRestoresDirectory ==
    (/\ variant = "ftp"
     /\ lastSess.op \in {"fetch_file", "get_file_data", "list_file_data"}
     /\ lastSess.exc = "none") =>
        cwd = lastSess.before

\* an FTP session in the root has fetched a file from another directory,
\* changed into it for the RETR, and stands in the root again
C27_Witness ==
    /\ variant = "ftp"
    /\ lastSess.op = "fetch_file" /\ lastSess.exc = "none"
    /\ lastSess.before = RootDir /\ lastSess.dir = DstDir
    /\ lastSess.cmds = <<"PWD", "PWD", "CWD", "RETR", "PWD", "CWD">>
    /\ cwd = RootDir

\* C28: an FTP fetch_file, get_file_data, list_file_data or remote write_file
\* that raises RetrieverFileError leaves the session in the working directory
\* it was in before the call, and so does a remote write_file that returns.
C28_FtpFailureRestoresDirectory ==
    (/\ variant = "ftp"
     /\ \/ /\ lastSess.op \in {"fetch_file", "get_file_data", "list_file_data"}
           /\ lastSess.exc = "RetrieverFileError"
        \/ /\ lastSess.op = "write_file" /\ lastSess.remote
           /\ lastSess.exc \in {"RetrieverFileError", "none"}) =>
        cwd = lastSess.before

\* C25: FTP is_active returns True exactly when the reply to NOOP starts with
\* "2" and False for any other reply; SFTP is_active returns True exactly when
\* the session has a channel and the channel is not closed; both return a
\* boolean and leave the working directory as it was.
C25_LivenessProbe ==
    lastSess.op = "is_active" =>
        /\ lastSess.exc = "none"
        /\ variant = "ftp" =>
              (lastSess.flag <=> (lastSess.noop # <<>> /\ lastSess.noop[1] = "2"))
        /\ variant = "sftp" => (lastSess.flag <=> lastSess.channel = "open")
        /\ cwd = lastSess.before

-----------------------------------------------------------------------------
(* file.py: FileInfo.__parse_mdtm_time *)

\* int() of a string of decimal digits
RECURSIVE IntOf(_)
IntOf(s) ==
    IF s = <<>> THEN 0
    ELSE 10 * IntOf(SubSeq(s, 1, Len(s) - 1)) + DigitVal(s[Len(s)])

\* the calendar of datetime: leap years and the lengths of the months
IsLeap(y) == (y % 4 = 0 /\ y % 100 # 0) \/ y % 400 = 0
DaysInMonth(y, m) ==
    IF m = 2 THEN (IF IsLeap(y) THEN 29 ELSE 28)
    ELSE IF m \in {4, 6, 9, 11} THEN 30 ELSE 31

\* the days from 1970-01-01 to the first day of year y, and to y-m-d
DaysBeforeYear(y) ==
    (y - 1970) * 365 + ((y - 1) \div 4 - (y - 1) \div 100 + (y - 1) \div 400)
        - (1969 \div 4 - 1969 \div 100 + 1969 \div 400)
RECURSIVE DaysBeforeMonth(_, _)
DaysBeforeMonth(y, m) ==
    IF m = 1 THEN 0 ELSE DaysBeforeMonth(y, m - 1) + DaysInMonth(y, m - 1)
DaysFromEpoch(y, m, d) == DaysBeforeYear(y) + DaysBeforeMonth(y, m) + (d - 1)

\* __parse_mdtm_time with %H read on a twelve-hour clock
parse_mdtm_fields_12h(y, mo, d, h, mi, sec) ==
    IF \/ y < 1 \/ mo \notin 1..12 \/ d < 1 \/ d > DaysInMonth(y, mo)
       \/ h > 23 \/ mi > 59 \/ sec > 59
    THEN Raise("ValueError")
    ELSE Ok(DaysFromEpoch(y, mo, d) * 86400 + (h % 12) * 3600 + mi * 60 + sec)

\* strptime's fields made a datetime (ValueError when a field is out of its
\* range), .replace(tzinfo=utc), .timestamp() and int()
parse_mdtm_fields(y, mo, d, h, mi, sec) ==
    IF \/ y < 1 \/ mo \notin 1..12 \/ d < 1 \/ d > DaysInMonth(y, mo)
       \/ h > 23 \/ mi > 59 \/ sec > 59
    THEN Raise("ValueError")
    ELSE Ok(DaysFromEpoch(y, mo, d) * 86400 + h * 3600 + mi * 60 + sec)

\* the fields of "%m%d%H%M%S" as strptime's pattern reads them: a field of
\* two digits lies in its range, a field of one digit is any digit (month and
\* day: any but 0)
MdtmFieldMin == <<1, 1, 0, 0, 0>>
MdtmFieldMax == <<12, 31, 23, 59, 61>>
AllDigits(s) == \A i \in DOMAIN s : s[i] \in Digits
FieldMatches(k, f) ==
    /\ AllDigits(f)
    /\ IntOf(f) >= MdtmFieldMin[k]
    /\ IntOf(f) <= (IF Len(f) = 2 THEN MdtmFieldMax[k] ELSE 9)

NoMatch == [ok |-> FALSE, end |-> 0, vals |-> <<>>]

\* strptime's match of the fields k..5 from position pos (counted from 0):
\* each field takes two digits when they fit its range and the rest of the
\* pattern then matches, else one digit; vals are the fields matched so far
RECURSIVE strptime_fields(_, _, _, _)
strptime_short(s, pos, k, vals) ==
    IF pos + 1 <= Len(s) /\ FieldMatches(k, Slice(s, pos, pos + 1))
    THEN strptime_fields(s, pos + 1, k + 1, Append(vals, IntOf(Slice(s, pos, pos + 1))))
    ELSE NoMatch
strptime_long(two, s, pos, k, vals) ==
    IF two.ok THEN two ELSE strptime_short(s, pos, k, vals)
strptime_fields(s, pos, k, vals) ==
    IF k > 5 THEN [ok |-> TRUE, end |-> pos, vals |-> vals]
    ELSE IF pos + 2 <= Len(s) /\ FieldMatches(k, Slice(s, pos, pos + 2))
    THEN strptime_long(strptime_fields(s, pos + 2, k + 1,
                                       Append(vals, IntOf(Slice(s, pos, pos + 2)))),
                       s, pos, k, vals)
    ELSE strptime_short(s, pos, k, vals)

\* the match of "%Y%m%d%H%M%S": four digits of year, then the five fields
strptime_mdtm(s) ==
    IF Len(s) >= 4 /\ AllDigits(Slice(s, 0, 4))
    THEN strptime_fields(s, 4, 1, <<IntOf(Slice(s, 0, 4))>>)
    ELSE NoMatch

\* strptime after the match m of a string of n characters: ValueError when
\* the pattern does not match or characters remain after it
parse_mdtm_matched(m, n) ==
    IF ~m.ok \/ m.end # n THEN Raise("ValueError")
    ELSE parse_mdtm_fields(m.vals[1], m.vals[2], m.vals[3], m.vals[4], m.vals[5],
                           m.vals[6])

\* FileInfo.__parse_mdtm_time: strptime with "%Y%m%d%H%M%S", which gives
\* four digits to the year and two, or one, to every other field
parse_mdtm_time(mdtm_time) ==
    parse_mdtm_matched(strptime_mdtm(mdtm_time), Len(mdtm_time))

-----------------------------------------------------------------------------
(* file.py: FileInfo, File and from_stat_data over Python values of any type *)

\* a value handed as a modification time: a float (v its whole seconds, f the
\* tenths of its fraction), an int, a str, None, the float NaN, or an
\* attribute that is not set
TimeFloat(whole, tenths) == [t |-> "float", v |-> whole, f |-> tenths, s |-> <<>>]
TimeInt(n) == [t |-> "int", v |-> n, s |-> <<>>]
TimeStr(str) == [t |-> "str", v |-> 0, s |-> str]
TimeNone == [t |-> "none", v |-> 0, s |-> <<>>]
TimeNaN == [t |-> "nan", v |-> 0, s |-> <<>>]
TimeAbsent == [t |-> "absent", v |-> 0, s |-> <<>>]

\* int() of a float: the fraction is cut off, the whole seconds are kept
IntOfFloat(x) == x.v

\* the int that __parse_mdtm_time returned, or its exception
TimeParsed(p) == IF p.exc # "none" THEN Raise(p.exc) ELSE Ok(TimeInt(p.val))

\* the assignment of file_mtime without the int() of the else branch
init_file_mtime_as_given(file_mtime) ==
    IF file_mtime.t = "str" THEN TimeParsed(parse_mdtm_time(file_mtime.s))
    ELSE IF file_mtime.t \in {"float", "int"} THEN Ok(file_mtime)
    ELSE IF file_mtime.t = "nan" THEN Raise("ValueError")
    ELSE Raise("TypeError")

\* FileInfo.__init__, the assignment of self.file_mtime: a str is parsed, any
\* other value goes through int()
init_file_mtime(file_mtime) ==
    IF file_mtime.t = "str" THEN TimeParsed(parse_mdtm_time(file_mtime.s))
    ELSE IF file_mtime.t = "float" THEN Ok(TimeInt(IntOfFloat(file_mtime)))
    ELSE IF file_mtime.t = "int" THEN Ok(file_mtime)
    ELSE IF file_mtime.t = "nan" THEN Raise("ValueError")
    ELSE Raise("TypeError")

\* the attributes of a FileInfo, with the type of the value in file_mtime
TypedInfo(fi, type) ==
    IF fi.exc # "none" THEN fi
    ELSE Ok([file_name |-> fi.val.file_name, file_size |-> fi.val.file_size,
             file_mtime |-> fi.val.file_mtime, file_mode |-> fi.val.file_mode,
             mtime_type |-> type])

\* FileInfo.__init__ after the assignment of file_mtime, t its outcome
TimedFileInfo(t, file_name, file_mode, file_size) ==
    IF t.exc # "none" THEN Raise(t.exc)
    ELSE TypedInfo(FileInfo(file_name, t.val.v, file_mode, file_size), t.val.t)

\* FileInfo.__init__ and File.__init__ (which only adds the stream), for a
\* file_mtime of any type
FileInfo_init(file_name, file_mtime, file_mode, file_size) ==
    TimedFileInfo(init_file_mtime(file_mtime), file_name, file_mode, file_size)

\* File.from_fileinfo, fi the outcome of the constructor of its argument:
\* the attributes of the FileInfo go through the constructor again
File_from_fileinfo(fi) ==
    IF fi.exc # "none" THEN fi
    ELSE FileInfo_init(fi.val.file_name,
                       [t |-> fi.val.mtime_type, v |-> fi.val.file_mtime, s |-> <<>>],
                       ModeInt(fi.val.file_mode), fi.val.file_size)

\* stat data: paramiko.SFTPAttributes or os.stat_result.  filename "" and
\* longname <<>> stand for None, st_size -1 for None or not set; a longname
\* is its characters up to index 56 and then the file name in one piece
LongNameFile(longname) == IF Len(longname) > 56 THEN longname[57] ELSE ""

\* from_stat_data, the match on data and file_name
stat_name(data, file_name) ==
    IF file_name # "" THEN Ok(file_name)
    ELSE IF data.filename # "" THEN Ok(data.filename)
    ELSE IF data.longname # <<>> THEN Ok(LongNameFile(data.longname))
    ELSE Raise("AttributeError")

\* from_stat_data, the match on data.st_mode
stat_mode(data) ==
    IF data.st_mode.t = "int" THEN Ok(data.st_mode)
    ELSE IF data.st_mode.t = "none" /\ data.longname # <<>>
    THEN Ok(ModeStr(Slice(data.longname, 0, 10)))
    ELSE Raise("AttributeError")

\* the test on st_mtime with 0 taken for a value that is None or not set
stat_mtime_defaulted(data) ==
    IF data.st_mtime.t \in {"float", "int", "nan"} THEN Ok(data.st_mtime)
    ELSE Ok(TimeInt(0))

\* from_stat_data, the test on data.st_mtime: set, not None, a float or an int
stat_mtime(data) ==
    IF data.st_mtime.t \in {"float", "int", "nan"} THEN Ok(data.st_mtime)
    ELSE Raise("AttributeError")

\* from_stat_data after its tests: cls(file_name, st_mtime, st_mode, st_size)
stat_timed(t, file_name, file_mode, file_size) ==
    IF t.exc # "none" THEN t
    ELSE FileInfo_init(file_name, t.val, file_mode, file_size)

\* from_stat_data after the matches on the name (n) and on st_mode (md)
stat_matched(n, md, data) ==
    IF n.exc # "none" THEN n
    ELSE IF md.exc # "none" THEN md
    ELSE IF data.st_size < 0 THEN Raise("AttributeError")
    ELSE stat_timed(stat_mtime(data), n.val, md.val, data.st_size)

\* FileInfo.from_stat_data for stat data of any shape
from_stat_attributes(data, file_name) ==
    stat_matched(stat_name(data, file_name), stat_mode(data), data)

\* get_file_permissions, the callback of LIST in _ftpClient.get_file_data:
\* permissions stays None unless the first ten characters of the line are all
\* among "-", "r", "w", "x"
get_file_permissions(data) ==
    IF \A i \in DOMAIN Slice(data, 0, 10) : Slice(data, 0, 10)[i] \in {"-", "r", "w", "x"}
    THEN ModeStr(Slice(data, 0, 10))
    ELSE ModeNone

-----------------------------------------------------------------------------
(* The parser specification: one string, or two MDTM strings of one day,    *)
(* handed to a parser of FileInfo                                           *)

DigitChar(n) ==
    CASE n = 0 -> "0" [] n = 1 -> "1" [] n = 2 -> "2" [] n = 3 -> "3"
      [] n = 4 -> "4" [] n = 5 -> "5" [] n = 6 -> "6" [] n = 7 -> "7"
      [] n = 8 -> "8" [] n = 9 -> "9"

\* n written with two and with four digits
TwoDigits(n) == <<DigitChar(n \div 10), DigitChar(n % 10)>>
FourDigits(n) == TwoDigits(n \div 100) \o TwoDigits(n % 100)

\* the MDTM strings of the model: days in and out of the calendar, times in
\* and out of the clock
StampDays == {<<1970, 1, 1>>, <<2023, 2, 29>>, <<2023, 12, 31>>, <<2024, 1, 1>>,
              <<2024, 2, 29>>}
StampHours == {0, 1, 13, 23, 24}
StampMinutes == {0, 59}
StampSeconds == {0, 59, 60}
StampTimes ==
    {TwoDigits(h) \o TwoDigits(mi) \o TwoDigits(sec) :
        h \in StampHours, mi \in StampMinutes, sec \in StampSeconds}
StampDay(day) == FourDigits(day[1]) \o TwoDigits(day[2]) \o TwoDigits(day[3])

\* the permission strings of the documented form: a type, and in each of the
\* nine places the letter of the place or a dash
PlaceLetter(i) == <<"r", "w", "x">>[((i - 1) % 3) + 1]
PermString(type, set) ==
    <<type>> \o [i \in 1..9 |-> IF set[i] THEN PlaceLetter(i) ELSE "-"]
PermStrings == {PermString(type, set) : type \in {"-", "d"}, set \in [1..9 -> BOOLEAN]}

\* the values handed to FileInfo as file_mtime: floats and ints of os.stat
\* and SFTP, MDTM strings of fourteen digits and of other lengths, None, NaN
Stamp2024 == <<"2", "0", "2", "4", "0", "1", "0", "1", "0", "1", "0", "0", "0", "0">>
TimeStrings ==
    {Stamp2024, FourDigits(1970) \o TwoDigits(1) \o TwoDigits(1) \o <<"0", "0", "0", "0", "0", "0">>,
     SubSeq(Stamp2024, 1, 13), SubSeq(Stamp2024, 1, 12), SubSeq(Stamp2024, 1, 8),
     Stamp2024 \o <<"1">>, SubSeq(Stamp2024, 1, 13) \o <<"a">>, <<>>}
InitTimes ==
    {TimeFloat(1, 9), TimeFloat(1704070800, 5), TimeInt(1704070800), TimeInt(0),
     TimeNone, TimeNaN} \cup {TimeStr(s) : s \in TimeStrings}

\* the values handed as file_mode: None, an int, the string of a LIST line,
\* and strings that are not of the documented form
OddPerms ==
    {<<"-", "r", "w", "-", "r", "-", "-", "r", "-", "5">>,
     <<"-", "r", "w", "s", "r", "-", "x", "r", "-", "x">>,
     <<"l", "r", "w", "x", "r", "w", "x", "r", "w", "x">>,
     <<"-", "r", "w", "-", "r", "-", "-", "r", "-">>,
     <<"1", "0">> \o UnixMode}
InitModes ==
    {ModeNone, ModeInt(ServerMode), ModeStr(ListPerms)} \cup {ModeStr(s) : s \in OddPerms}

\* the long name of an SFTP listing: ten characters of permissions, the
\* columns up to index 56, the file name
LongName(perms, name) == perms \o [i \in 1..46 |-> " "] \o <<name>>

\* stat data: SFTP attributes that carry only a long name, for every
\* permission string; and attributes with each field set or not
StatTimes ==
    {TimeFloat(1704070800, 5), TimeInt(1704070800), TimeNone, TimeAbsent, TimeNaN,
     TimeStr(Stamp2024)}
StatData ==
    {[filename |-> "", longname |-> LongName(p, "baz.mrc"), st_mode |-> ModeNone,
      st_size |-> 1, st_mtime |-> TimeInt(1704070800)] : p \in PermStrings}
    \cup
    {[filename |-> f, longname |-> l, st_mode |-> md, st_size |-> sz, st_mtime |-> t] :
        f \in {"foo.mrc", ""}, l \in {<<>>, LongName(ListPerms, "baz.mrc")},
        md \in {ModeNone, ModeInt(ServerMode)}, sz \in {-1, 1}, t \in StatTimes}

\* the lines LIST returns for a name, and the replies to MDTM
ListLines ==
    {ListPerms \o <<" ", "1">>, <<"d", "r", "w", "x", "r", "-", "x", "r", "-", "x", " ", "1">>,
     <<"-", "r", "w", "s", "r", "-", "x", "r", "-", "x", " ", "1">>,
     <<"-", "r", "w", "-", "r", "-", "-", "r", "-">>, <<"f", "o", "o">>}
MdtmReply(stamp) == <<"2", "1", "3", " ">> \o stamp
MdtmReplies == {MdtmReply(Stamp2024), MdtmReply(SubSeq(Stamp2024, 1, 13))}

ParseInit ==
    /\ \/ \E p \in PermStrings : arg = [kind |-> "perm", s |-> p, t |-> <<>>]
       \/ \E day \in StampDays, a \in StampTimes, b \in StampTimes :
             arg = [kind |-> "mdtm", s |-> StampDay(day) \o a, t |-> StampDay(day) \o b]
       \/ \E t \in InitTimes, md \in InitModes, via \in {"FileInfo", "from_fileinfo"} :
             arg = [kind |-> "init", via |-> via, mtime |-> t, mode |-> md]
       \/ \E data \in StatData, n \in {"", "bar.mrc"} :
             arg = [kind |-> "stat", data |-> data, name |-> n]
       \/ \E l \in ListLines, t \in MdtmReplies :
             arg = [kind |-> "list", line |-> l, time |-> t]
    /\ parsed = NotParsed
    /\ PutIdle /\ ConnIdle /\ SyncIdle /\ SessIdle
    /\ variant = "ftp"

\* FileInfo(file_mode=arg.s): self.__parse_permissions(file_mode)
ParsePermissions ==
    /\ arg.kind = "perm"
    /\ ~parsed.done
    /\ \E p \in {parse_permissions(arg.s)} :
          parsed' = [NotParsed EXCEPT !.done = TRUE, !.exc = p.exc, !.val = p.val]
    /\ UNCHANGED <<arg, putVars, connVars, syncVars, sessVars>>

\* FileInfo(file_mtime=arg.s) and FileInfo(file_mtime=arg.t):
\* self.__parse_mdtm_time(file_mtime)
ParseMdtmTime ==
    /\ arg.kind = "mdtm"
    /\ ~parsed.done
    /\ \E a \in {parse_mdtm_time(arg.s)}, b \in {parse_mdtm_time(arg.t)} :
          parsed' = [done |-> TRUE, exc |-> a.exc, val |-> a.val,
                     exc2 |-> b.exc, val2 |-> b.val]
    /\ UNCHANGED <<arg, putVars, connVars, syncVars, sessVars>>

\* FileInfo(file_mtime=arg.mtime, file_mode=arg.mode), and File(...) alike
InitFileInfo ==
    /\ arg.kind = "init" /\ arg.via = "FileInfo"
    /\ ~parsed.done
    /\ \E r \in {FileInfo_init("foo.mrc", arg.mtime, arg.mode, 1)} :
          parsed' = [NotParsed EXCEPT !.done = TRUE, !.exc = r.exc, !.val = r.val]
    /\ UNCHANGED <<arg, putVars, connVars, syncVars, sessVars>>

\* File.from_fileinfo(FileInfo(file_mtime=arg.mtime, file_mode=arg.mode), stream)
FromFileinfo ==
    /\ arg.kind = "init" /\ arg.via = "from_fileinfo"
    /\ ~parsed.done
    /\ \E r \in {File_from_fileinfo(FileInfo_init("foo.mrc", arg.mtime, arg.mode, 1))} :
          parsed' = [NotParsed EXCEPT !.done = TRUE, !.exc = r.exc, !.val = r.val]
    /\ UNCHANGED <<arg, putVars, connVars, syncVars, sessVars>>

\* FileInfo.from_stat_data(arg.data, arg.name)
FromStatData ==
    /\ arg.kind = "stat"
    /\ ~parsed.done
    /\ \E r \in {from_stat_attributes(arg.data, arg.name)} :
          parsed' = [NotParsed EXCEPT !.done = TRUE, !.exc = r.exc, !.val = r.val]
    /\ UNCHANGED <<arg, putVars, connVars, syncVars, sessVars>>

\* the return of the second try block of _ftpClient.get_file_data:
\* FileInfo(file_name, size, time[4:], permissions) from the LIST line and the
\* MDTM reply
FromListLine ==
    /\ arg.kind = "list"
    /\ ~parsed.done
    /\ \E r \in {FileInfo_init("foo.mrc", TimeStr(Slice(arg.time, 4, Len(arg.time))),
                               get_file_permissions(arg.line), 1)} :
          parsed' = [NotParsed EXCEPT !.done = TRUE, !.exc = r.exc, !.val = r.val]
    /\ UNCHANGED <<arg, putVars, connVars, syncVars, sessVars>>

ParseNext ==
    \/ ParsePermissions \/ ParseMdtmTime
    \/ InitFileInfo \/ FromFileinfo \/ FromStatData \/ FromListLine

ParseSpec == ParseInit /\ [][ParseNext]_vars

-----------------------------------------------------------------------------
(* Claims about the parsers, checked under ParseSpec *)

\* the value of one place of a permission string, by its position alone
PlaceBit(s, i) == IF s[i] = "-" THEN 0 ELSE 1
TripletValue(s, i) == 4 * PlaceBit(s, i) + 2 * PlaceBit(s, i + 1) + PlaceBit(s, i + 2)
TypeValue(s) == IF s[1] = "d" THEN 4 ELSE 1

StampField(s, from, to) == IntOf(Slice(s, from, to))
ValidStamp(s) ==
    /\ StampField(s, 4, 6) \in 1..12
    /\ StampField(s, 6, 8) \in 1..DaysInMonth(StampField(s, 0, 4), StampField(s, 4, 6))
    /\ StampField(s, 8, 10) < 24
    /\ StampField(s, 10, 12) < 60
    /\ StampField(s, 12, 14) < 60
SecondOfDay(s) ==
    StampField(s, 8, 10) * 3600 + StampField(s, 10, 12) * 60 + StampField(s, 12, 14)

\* C20: a valid MDTM string YYYYMMDDHHMMSS parses to its epoch seconds in
\* UTC: 20240101010000 gives 1704070800, 19700101000000 gives 0, the value is
\* the second of the day past a multiple of 86400; and two distinct valid
\* strings of one day never parse to the same value.
C20_MdtmIsUtcEpochAndInjective ==
    (parsed.done /\ arg.kind = "mdtm" /\ ValidStamp(arg.s)) =>
        /\ parsed.exc = "none"
        /\ parsed.val % 86400 = SecondOfDay(arg.s)
        /\ arg.s = <<"2", "0", "2", "4", "0", "1", "0", "1", "0", "1", "0", "0", "0", "0">>
              => parsed.val = 1704070800
        /\ arg.s = <<"1", "9", "7", "0", "0", "1", "0", "1", "0", "0", "0", "0", "0", "0">>
              => parsed.val = 0
        /\ (ValidStamp(arg.t) /\ arg.t # arg.s) =>
              (parsed.exc2 = "none" /\ parsed.val2 # parsed.val)

C20_Witness ==
    /\ parsed.done /\ arg.kind = "mdtm"
    /\ arg.s = <<"2", "0", "2", "4", "0", "1", "0", "1", "0", "1", "0", "0", "0", "0">>
    /\ arg.t = <<"2", "0", "2", "4", "0", "1", "0", "1", "1", "3", "0", "0", "0", "0">>
    /\ parsed.val = 1704070800
    /\ parsed.val2 = 1704070800 + 43200

-----------------------------------------------------------------------------
(* Claims about the constructors of FileInfo and File, checked under ParseSpec *)

\* the constructor calls of the model that returned an object
Built(kind) == parsed.done /\ arg.kind = kind /\ parsed.exc = "none"

\* the value handed as file_mtime in a call of kind "init", "stat" or "list"
GivenTime ==
    IF arg.kind = "init" THEN arg.mtime
    ELSE IF arg.kind = "stat" THEN arg.data.st_mtime
    ELSE TimeStr(Slice(arg.time, 4, Len(arg.time)))

\* C21: every FileInfo and File the constructors return (direct, File,
\* from_fileinfo, from_stat_data, the return of an FTP lookup) holds
\* file_mtime as an int: the whole seconds of a float, the int itself, the
\* UTC epoch seconds of an MDTM string.
C21_MtimeIsIntegerEpoch ==
    (Built("init") \/ Built("stat") \/ Built("list")) =>
        /\ parsed.val.mtime_type = "int"
        /\ GivenTime.t = "int" => parsed.val.file_mtime = GivenTime.v
        /\ GivenTime.t = "float" => parsed.val.file_mtime = GivenTime.v
        /\ (GivenTime.t = "str" /\ GivenTime.s = Stamp2024) =>
              parsed.val.file_mtime = 1704070800

C21_Witness ==
    /\ Built("init") /\ arg.via = "from_fileinfo"
    /\ arg.mtime = TimeFloat(1704070800, 5)
    /\ parsed.val.file_mtime = 1704070800
    /\ parsed.val.mtime_type = "int"

\* C22: from_stat_data on attributes whose st_mtime is not set, is None or
\* is not a float or an int raises AttributeError and returns no FileInfo,
\* whatever the other attributes are; the constructor called with None, or
\* from_stat_data with a NaN, fails as well; no call puts a default in place
\* of the missing time.
C22_NoMtimeNoFileInfo ==
    /\ (parsed.done /\ arg.kind = "stat"
            /\ arg.data.st_mtime.t \in {"absent", "none", "str"}) =>
          (parsed.exc = "AttributeError" /\ parsed.val = -1)
    /\ (parsed.done /\ arg.kind = "stat" /\ arg.data.st_mtime.t = "nan") =>
          (parsed.exc # "none" /\ parsed.val = -1)
    /\ (parsed.done /\ arg.kind = "init" /\ arg.mtime.t \in {"none", "nan"}) =>
          (parsed.exc # "none" /\ parsed.val = -1)

\* the attributes lack nothing but st_mtime, and the call fails
C22_Witness ==
    /\ parsed.done /\ arg.kind = "stat"
    /\ arg.name = "bar.mrc" /\ arg.data.st_mode.t = "int" /\ arg.data.st_size = 1
    /\ arg.data.st_mtime = TimeAbsent
    /\ parsed.exc = "AttributeError"

\* a permission string with a character outside d, -, r, w, x; a string of
\* fourteen digits
OutsidePerm(s) == \E i \in DOMAIN s : s[i] \notin {"d", "-", "r", "w", "x"}
FourteenDigits(s) == Len(s) = 14 /\ AllDigits(s)

\* C23: the constructor fails when file_mode is a string with a character
\* outside d, -, r, w, x or a string shorter than ten characters, and when
\* file_mtime is a string that is not fourteen digits; and an object holds
\* mode 0 only when no permissions were given (file_mode None, or a LIST
\* reply without a permission column).
C23_ParsersNeverGuess ==
    /\ (parsed.done /\ arg.kind = "init" /\ arg.mode.t = "str"
            /\ (OutsidePerm(arg.mode.s) \/ Len(arg.mode.s) < 10)) =>
          parsed.exc # "none"
    /\ (parsed.done /\ arg.kind = "init" /\ arg.mtime.t = "str"
            /\ ~FourteenDigits(arg.mtime.s)) =>
          parsed.exc # "none"
    /\ (Built("init") /\ parsed.val.file_mode = 0) => arg.mode.t = "none"
    /\ (Built("list") /\ parsed.val.file_mode = 0) =>
          \A i \in DOMAIN arg.line : arg.line[i] \notin {"-", "r", "w", "x"}

-----------------------------------------------------------------------------
(* The permission parser against the st_mode of POSIX stat, checked under *)
(* ParseSpec                                                               *)

\* the st_mode that stat reports for the file a permission string describes:
\* S_IFDIR (0o040000) or S_IFREG (0o100000) and the nine permission bits
PosixMode(s) ==
    (IF s[1] = "d" THEN 16384 ELSE 32768)
        + TripletValue(s, 2) * 64 + TripletValue(s, 5) * 8 + TripletValue(s, 8)

\* C30: for every ten-character permission string of a regular file or a
\* directory without setuid, setgid or sticky bit, the parser returns the
\* st_mode that stat reports for such a file, and a FileInfo built from a
\* long name that starts with the string has that st_mode as its file_mode.
C30_ParserAgreesWithStat ==
    /\ (parsed.done /\ arg.kind = "perm") =>
           parsed.exc = "none" /\ parsed.val = PosixMode(arg.s)
    /\ (/\ parsed.done /\ arg.kind = "stat"
        /\ arg.data.st_mode.t = "none"
        /\ arg.data.longname # <<>>
        /\ arg.data.st_mtime.t = "int" /\ arg.data.st_size >= 0
        /\ arg.name # "" \/ arg.data.filename # "") =>
           /\ parsed.exc = "none"
           /\ parsed.val.file_mode = PosixMode(Slice(arg.data.longname, 0, 10))

====
